---- MODULE Spec2Model ----
(***************************************************************************)
(* Model of unfault-core's semantic normalization layer                    *)
(* (src/src/semantics/common_impl.rs) and of the Rust HTTP client          *)
(* extractor (src/src/semantics/rust/http.rs).                             *)
(*                                                                         *)
(* Strings are sequences of one-character strings, so that rfind,          *)
(* contains, starts_with and slicing are computed as the code computes     *)
(* them.  Option<T> is a sequence of length 0 (None) or 1 (Some).          *)
(***************************************************************************)
EXTENDS Integers, Sequences, FiniteSets, TLC

VARIABLES
    sem,    \* the <Lang>FileSemantics record handed to the normalization layer
    out,    \* the value returned by the operation applied last
    file    \* the Rust source handed to summarize_http_clients

vars == <<sem, out, file>>

(***************************************************************************)
(* Bounds of the model.                                                    *)
(***************************************************************************)
MaxByte == 3        \* byte offsets of functions and call sites: 0..MaxByte
MaxSites == 3       \* functions plus call sites of one file
MaxLen == 5         \* longest callee expression, in characters

(***************************************************************************)
(* Option and sequence helpers.                                            *)
(***************************************************************************)
None == <<>>
Some(x) == <<x>>
IsSome(o) == Len(o) = 1
IsNone(o) == Len(o) = 0
Unwrap(o) == o[1]

Map(s, F(_)) == [i \in 1..Len(s) |-> F(s[i])]

RECURSIVE Flatten(_)
Flatten(ss) == IF Len(ss) = 0 THEN <<>> ELSE Head(ss) \o Flatten(Tail(ss))

\* Iterator::filter_map(f).collect(): keeps the Some results, in order.
FilterMap(s, F(_)) == Flatten(Map(s, F))

SeqsUpTo(S, n) == UNION {[1..k -> S] : k \in 0..n}

\* str::rfind(ch): 1-based index of the last occurrence, 0 when absent.
RFind(s, ch) ==
    IF \E i \in 1..Len(s) : s[i] = ch
    THEN CHOOSE i \in 1..Len(s) : s[i] = ch /\ \A j \in (i+1)..Len(s) : s[j] # ch
    ELSE 0

\* str::find(ch): 1-based index of the first occurrence, 0 when absent.
Find(s, ch) ==
    IF \E i \in 1..Len(s) : s[i] = ch
    THEN CHOOSE i \in 1..Len(s) : s[i] = ch /\ \A j \in 1..(i-1) : s[j] # ch
    ELSE 0

Langs == {"Python", "Go", "Rust", "Typescript"}

(***************************************************************************)
(* The shared taxonomy: an enum value is a record [tag, name]; name is     *)
(* the payload of Other(name) and empty otherwise.                         *)
(***************************************************************************)
Variant(t) == [tag |-> t, name |-> <<>>]
Other(s) == [tag |-> "Other", name |-> s]

CommonLocation(file_id, line, column, start_byte, end_byte) ==
    [file_id |-> file_id, line |-> line, column |-> column,
     start_byte |-> start_byte, end_byte |-> end_byte]

\* An f64.  A number with the divisor 1 is the f64 nearest to
\* digits * 10^exponent, which is how str::parse rounds a decimal: an
\* infinity when that value is beyond the largest f64, a zero when it is
\* below the smallest.  A number with the divisor 1000 is that f64 divided
\* by the f64 1000.0, the quotient rounded as an f64 division rounds it: it
\* is rounded twice, by the parse and then by the division, and is not
\* always the f64 nearest to digits * 10^exponent / 1000 (33.3 / 1000.0 is
\* 0.033299999999999996 and not 0.0333, the f64 of 1e23 divided by 1000.0
\* is 9.999999999999998e19 and not 1e20).  The digits are decimal digits
\* without leading and trailing zeros, none for a zero.  Equal records are
\* equal f64s (other than NaN); two different records may be the same f64,
\* as 0.1 and 0.10000000000000000001 are.
F64(class, negative, digits, exponent, divisor) ==
    [class |-> class, negative |-> negative, digits |-> digits, exponent |-> exponent,
     divisor |-> divisor]

(***************************************************************************)
(* Characters.  A string is a sequence of characters; a character that a   *)
(* string can hold is the one-character string, tab "\t" and line feed     *)
(* "\n" included; any other character is named by its code point,          *)
(* "U+000B", "U+00DF".  The two tables are those of the Unicode character  *)
(* database (version 17.0) behind char::is_uppercase and                   *)
(* char::to_uppercase.                                                     *)
(***************************************************************************)
\* The characters with the Uppercase property: char::is_uppercase.
UppercaseLetters ==
    {
     "A", "B", "C", "D", "E", "F", "G", "H", "I", "J", "K", "L", "M", "N", "O", "P", "Q", "R",
     "S", "T", "U", "V", "W", "X", "Y", "Z", "U+00C0", "U+00C1", "U+00C2", "U+00C3", "U+00C4",
     "U+00C5", "U+00C6", "U+00C7", "U+00C8", "U+00C9", "U+00CA", "U+00CB", "U+00CC", "U+00CD",
     "U+00CE", "U+00CF", "U+00D0", "U+00D1", "U+00D2", "U+00D3", "U+00D4", "U+00D5", "U+00D6",
     "U+00D8", "U+00D9", "U+00DA", "U+00DB", "U+00DC", "U+00DD", "U+00DE", "U+0100", "U+0102",
     "U+0104", "U+0106", "U+0108", "U+010A", "U+010C", "U+010E", "U+0110", "U+0112", "U+0114",
     "U+0116", "U+0118", "U+011A", "U+011C", "U+011E", "U+0120", "U+0122", "U+0124", "U+0126",
     "U+0128", "U+012A", "U+012C", "U+012E", "U+0130", "U+0132", "U+0134", "U+0136", "U+0139",
     "U+013B", "U+013D", "U+013F", "U+0141", "U+0143", "U+0145", "U+0147", "U+014A", "U+014C",
     "U+014E", "U+0150", "U+0152", "U+0154", "U+0156", "U+0158", "U+015A", "U+015C", "U+015E",
     "U+0160", "U+0162", "U+0164", "U+0166", "U+0168", "U+016A", "U+016C", "U+016E", "U+0170",
     "U+0172", "U+0174", "U+0176", "U+0178", "U+0179", "U+017B", "U+017D", "U+0181", "U+0182",
     "U+0184", "U+0186", "U+0187", "U+0189", "U+018A", "U+018B", "U+018E", "U+018F", "U+0190",
     "U+0191", "U+0193", "U+0194", "U+0196", "U+0197", "U+0198", "U+019C", "U+019D", "U+019F",
     "U+01A0", "U+01A2", "U+01A4", "U+01A6", "U+01A7", "U+01A9", "U+01AC", "U+01AE", "U+01AF",
     "U+01B1", "U+01B2", "U+01B3", "U+01B5", "U+01B7", "U+01B8", "U+01BC", "U+01C4", "U+01C7",
     "U+01CA", "U+01CD", "U+01CF", "U+01D1", "U+01D3", "U+01D5", "U+01D7", "U+01D9", "U+01DB",
     "U+01DE", "U+01E0", "U+01E2", "U+01E4", "U+01E6", "U+01E8", "U+01EA", "U+01EC", "U+01EE",
     "U+01F1", "U+01F4", "U+01F6", "U+01F7", "U+01F8", "U+01FA", "U+01FC", "U+01FE", "U+0200",
     "U+0202", "U+0204", "U+0206", "U+0208", "U+020A", "U+020C", "U+020E", "U+0210", "U+0212",
     "U+0214", "U+0216", "U+0218", "U+021A", "U+021C", "U+021E", "U+0220", "U+0222", "U+0224",
     "U+0226", "U+0228", "U+022A", "U+022C", "U+022E", "U+0230", "U+0232", "U+023A", "U+023B",
     "U+023D", "U+023E", "U+0241", "U+0243", "U+0244", "U+0245", "U+0246", "U+0248", "U+024A",
     "U+024C", "U+024E", "U+0370", "U+0372", "U+0376", "U+037F", "U+0386", "U+0388", "U+0389",
     "U+038A", "U+038C", "U+038E", "U+038F", "U+0391", "U+0392", "U+0393", "U+0394", "U+0395",
     "U+0396", "U+0397", "U+0398", "U+0399", "U+039A", "U+039B", "U+039C", "U+039D", "U+039E",
     "U+039F", "U+03A0", "U+03A1", "U+03A3", "U+03A4", "U+03A5", "U+03A6", "U+03A7", "U+03A8",
     "U+03A9", "U+03AA", "U+03AB", "U+03CF", "U+03D2", "U+03D3", "U+03D4", "U+03D8", "U+03DA",
     "U+03DC", "U+03DE", "U+03E0", "U+03E2", "U+03E4", "U+03E6", "U+03E8", "U+03EA", "U+03EC",
     "U+03EE", "U+03F4", "U+03F7", "U+03F9", "U+03FA", "U+03FD", "U+03FE", "U+03FF", "U+0400",
     "U+0401", "U+0402", "U+0403", "U+0404", "U+0405", "U+0406", "U+0407", "U+0408", "U+0409",
     "U+040A", "U+040B", "U+040C", "U+040D", "U+040E", "U+040F", "U+0410", "U+0411", "U+0412",
     "U+0413", "U+0414", "U+0415", "U+0416", "U+0417", "U+0418", "U+0419", "U+041A", "U+041B",
     "U+041C", "U+041D", "U+041E", "U+041F", "U+0420", "U+0421", "U+0422", "U+0423", "U+0424",
     "U+0425", "U+0426", "U+0427", "U+0428", "U+0429", "U+042A", "U+042B", "U+042C", "U+042D",
     "U+042E", "U+042F", "U+0460", "U+0462", "U+0464", "U+0466", "U+0468", "U+046A", "U+046C",
     "U+046E", "U+0470", "U+0472", "U+0474", "U+0476", "U+0478", "U+047A", "U+047C", "U+047E",
     "U+0480", "U+048A", "U+048C", "U+048E", "U+0490", "U+0492", "U+0494", "U+0496", "U+0498",
     "U+049A", "U+049C", "U+049E", "U+04A0", "U+04A2", "U+04A4", "U+04A6", "U+04A8", "U+04AA",
     "U+04AC", "U+04AE", "U+04B0", "U+04B2", "U+04B4", "U+04B6", "U+04B8", "U+04BA", "U+04BC",
     "U+04BE", "U+04C0", "U+04C1", "U+04C3", "U+04C5", "U+04C7", "U+04C9", "U+04CB", "U+04CD",
     "U+04D0", "U+04D2", "U+04D4", "U+04D6", "U+04D8", "U+04DA", "U+04DC", "U+04DE", "U+04E0",
     "U+04E2", "U+04E4", "U+04E6", "U+04E8", "U+04EA", "U+04EC", "U+04EE", "U+04F0", "U+04F2",
     "U+04F4", "U+04F6", "U+04F8", "U+04FA", "U+04FC", "U+04FE", "U+0500", "U+0502", "U+0504",
     "U+0506", "U+0508", "U+050A", "U+050C", "U+050E", "U+0510", "U+0512", "U+0514", "U+0516",
     "U+0518", "U+051A", "U+051C", "U+051E", "U+0520", "U+0522", "U+0524", "U+0526", "U+0528",
     "U+052A", "U+052C", "U+052E", "U+0531", "U+0532", "U+0533", "U+0534", "U+0535", "U+0536",
     "U+0537", "U+0538", "U+0539", "U+053A", "U+053B", "U+053C", "U+053D", "U+053E", "U+053F",
     "U+0540", "U+0541", "U+0542", "U+0543", "U+0544", "U+0545", "U+0546", "U+0547", "U+0548",
     "U+0549", "U+054A", "U+054B", "U+054C", "U+054D", "U+054E", "U+054F", "U+0550", "U+0551",
     "U+0552", "U+0553", "U+0554", "U+0555", "U+0556", "U+10A0", "U+10A1", "U+10A2", "U+10A3",
     "U+10A4", "U+10A5", "U+10A6", "U+10A7", "U+10A8", "U+10A9", "U+10AA", "U+10AB", "U+10AC",
     "U+10AD", "U+10AE", "U+10AF", "U+10B0", "U+10B1", "U+10B2", "U+10B3", "U+10B4", "U+10B5",
     "U+10B6", "U+10B7", "U+10B8", "U+10B9", "U+10BA", "U+10BB", "U+10BC", "U+10BD", "U+10BE",
     "U+10BF", "U+10C0", "U+10C1", "U+10C2", "U+10C3", "U+10C4", "U+10C5", "U+10C7", "U+10CD",
     "U+13A0", "U+13A1", "U+13A2", "U+13A3", "U+13A4", "U+13A5", "U+13A6", "U+13A7", "U+13A8",
     "U+13A9", "U+13AA", "U+13AB", "U+13AC", "U+13AD", "U+13AE", "U+13AF", "U+13B0", "U+13B1",
     "U+13B2", "U+13B3", "U+13B4", "U+13B5", "U+13B6", "U+13B7", "U+13B8", "U+13B9", "U+13BA",
     "U+13BB", "U+13BC", "U+13BD", "U+13BE", "U+13BF", "U+13C0", "U+13C1", "U+13C2", "U+13C3",
     "U+13C4", "U+13C5", "U+13C6", "U+13C7", "U+13C8", "U+13C9", "U+13CA", "U+13CB", "U+13CC",
     "U+13CD", "U+13CE", "U+13CF", "U+13D0", "U+13D1", "U+13D2", "U+13D3", "U+13D4", "U+13D5",
     "U+13D6", "U+13D7", "U+13D8", "U+13D9", "U+13DA", "U+13DB", "U+13DC", "U+13DD", "U+13DE",
     "U+13DF", "U+13E0", "U+13E1", "U+13E2", "U+13E3", "U+13E4", "U+13E5", "U+13E6", "U+13E7",
     "U+13E8", "U+13E9", "U+13EA", "U+13EB", "U+13EC", "U+13ED", "U+13EE", "U+13EF", "U+13F0",
     "U+13F1", "U+13F2", "U+13F3", "U+13F4", "U+13F5", "U+1C89", "U+1C90", "U+1C91", "U+1C92",
     "U+1C93", "U+1C94", "U+1C95", "U+1C96", "U+1C97", "U+1C98", "U+1C99", "U+1C9A", "U+1C9B",
     "U+1C9C", "U+1C9D", "U+1C9E", "U+1C9F", "U+1CA0", "U+1CA1", "U+1CA2", "U+1CA3", "U+1CA4",
     "U+1CA5", "U+1CA6", "U+1CA7", "U+1CA8", "U+1CA9", "U+1CAA", "U+1CAB", "U+1CAC", "U+1CAD",
     "U+1CAE", "U+1CAF", "U+1CB0", "U+1CB1", "U+1CB2", "U+1CB3", "U+1CB4", "U+1CB5", "U+1CB6",
     "U+1CB7", "U+1CB8", "U+1CB9", "U+1CBA", "U+1CBD", "U+1CBE", "U+1CBF", "U+1E00", "U+1E02",
     "U+1E04", "U+1E06", "U+1E08", "U+1E0A", "U+1E0C", "U+1E0E", "U+1E10", "U+1E12", "U+1E14",
     "U+1E16", "U+1E18", "U+1E1A", "U+1E1C", "U+1E1E", "U+1E20", "U+1E22", "U+1E24", "U+1E26",
     "U+1E28", "U+1E2A", "U+1E2C", "U+1E2E", "U+1E30", "U+1E32", "U+1E34", "U+1E36", "U+1E38",
     "U+1E3A", "U+1E3C", "U+1E3E", "U+1E40", "U+1E42", "U+1E44", "U+1E46", "U+1E48", "U+1E4A",
     "U+1E4C", "U+1E4E", "U+1E50", "U+1E52", "U+1E54", "U+1E56", "U+1E58", "U+1E5A", "U+1E5C",
     "U+1E5E", "U+1E60", "U+1E62", "U+1E64", "U+1E66", "U+1E68", "U+1E6A", "U+1E6C", "U+1E6E",
     "U+1E70", "U+1E72", "U+1E74", "U+1E76", "U+1E78", "U+1E7A", "U+1E7C", "U+1E7E", "U+1E80",
     "U+1E82", "U+1E84", "U+1E86", "U+1E88", "U+1E8A", "U+1E8C", "U+1E8E", "U+1E90", "U+1E92",
     "U+1E94", "U+1E9E", "U+1EA0", "U+1EA2", "U+1EA4", "U+1EA6", "U+1EA8", "U+1EAA", "U+1EAC",
     "U+1EAE", "U+1EB0", "U+1EB2", "U+1EB4", "U+1EB6", "U+1EB8", "U+1EBA", "U+1EBC", "U+1EBE",
     "U+1EC0", "U+1EC2", "U+1EC4", "U+1EC6", "U+1EC8", "U+1ECA", "U+1ECC", "U+1ECE", "U+1ED0",
     "U+1ED2", "U+1ED4", "U+1ED6", "U+1ED8", "U+1EDA", "U+1EDC", "U+1EDE", "U+1EE0", "U+1EE2",
     "U+1EE4", "U+1EE6", "U+1EE8", "U+1EEA", "U+1EEC", "U+1EEE", "U+1EF0", "U+1EF2", "U+1EF4",
     "U+1EF6", "U+1EF8", "U+1EFA", "U+1EFC", "U+1EFE", "U+1F08", "U+1F09", "U+1F0A", "U+1F0B",
     "U+1F0C", "U+1F0D", "U+1F0E", "U+1F0F", "U+1F18", "U+1F19", "U+1F1A", "U+1F1B", "U+1F1C",
     "U+1F1D", "U+1F28", "U+1F29", "U+1F2A", "U+1F2B", "U+1F2C", "U+1F2D", "U+1F2E", "U+1F2F",
     "U+1F38", "U+1F39", "U+1F3A", "U+1F3B", "U+1F3C", "U+1F3D", "U+1F3E", "U+1F3F", "U+1F48",
     "U+1F49", "U+1F4A", "U+1F4B", "U+1F4C", "U+1F4D", "U+1F59", "U+1F5B", "U+1F5D", "U+1F5F",
     "U+1F68", "U+1F69", "U+1F6A", "U+1F6B", "U+1F6C", "U+1F6D", "U+1F6E", "U+1F6F", "U+1FB8",
     "U+1FB9", "U+1FBA", "U+1FBB", "U+1FC8", "U+1FC9", "U+1FCA", "U+1FCB", "U+1FD8", "U+1FD9",
     "U+1FDA", "U+1FDB", "U+1FE8", "U+1FE9", "U+1FEA", "U+1FEB", "U+1FEC", "U+1FF8", "U+1FF9",
     "U+1FFA", "U+1FFB", "U+2102", "U+2107", "U+210B", "U+210C", "U+210D", "U+2110", "U+2111",
     "U+2112", "U+2115", "U+2119", "U+211A", "U+211B", "U+211C", "U+211D", "U+2124", "U+2126",
     "U+2128", "U+212A", "U+212B", "U+212C", "U+212D", "U+2130", "U+2131", "U+2132", "U+2133",
     "U+213E", "U+213F", "U+2145", "U+2160", "U+2161", "U+2162", "U+2163", "U+2164", "U+2165",
     "U+2166", "U+2167", "U+2168", "U+2169", "U+216A", "U+216B", "U+216C", "U+216D", "U+216E",
     "U+216F", "U+2183", "U+24B6", "U+24B7", "U+24B8", "U+24B9", "U+24BA", "U+24BB", "U+24BC",
     "U+24BD", "U+24BE", "U+24BF", "U+24C0", "U+24C1", "U+24C2", "U+24C3", "U+24C4", "U+24C5",
     "U+24C6", "U+24C7", "U+24C8", "U+24C9", "U+24CA", "U+24CB", "U+24CC", "U+24CD", "U+24CE",
     "U+24CF", "U+2C00", "U+2C01", "U+2C02", "U+2C03", "U+2C04", "U+2C05", "U+2C06", "U+2C07",
     "U+2C08", "U+2C09", "U+2C0A", "U+2C0B", "U+2C0C", "U+2C0D", "U+2C0E", "U+2C0F", "U+2C10",
     "U+2C11", "U+2C12", "U+2C13", "U+2C14", "U+2C15", "U+2C16", "U+2C17", "U+2C18", "U+2C19",
     "U+2C1A", "U+2C1B", "U+2C1C", "U+2C1D", "U+2C1E", "U+2C1F", "U+2C20", "U+2C21", "U+2C22",
     "U+2C23", "U+2C24", "U+2C25", "U+2C26", "U+2C27", "U+2C28", "U+2C29", "U+2C2A", "U+2C2B",
     "U+2C2C", "U+2C2D", "U+2C2E", "U+2C2F", "U+2C60", "U+2C62", "U+2C63", "U+2C64", "U+2C67",
     "U+2C69", "U+2C6B", "U+2C6D", "U+2C6E", "U+2C6F", "U+2C70", "U+2C72", "U+2C75", "U+2C7E",
     "U+2C7F", "U+2C80", "U+2C82", "U+2C84", "U+2C86", "U+2C88", "U+2C8A", "U+2C8C", "U+2C8E",
     "U+2C90", "U+2C92", "U+2C94", "U+2C96", "U+2C98", "U+2C9A", "U+2C9C", "U+2C9E", "U+2CA0",
     "U+2CA2", "U+2CA4", "U+2CA6", "U+2CA8", "U+2CAA", "U+2CAC", "U+2CAE", "U+2CB0", "U+2CB2",
     "U+2CB4", "U+2CB6", "U+2CB8", "U+2CBA", "U+2CBC", "U+2CBE", "U+2CC0", "U+2CC2", "U+2CC4",
     "U+2CC6", "U+2CC8", "U+2CCA", "U+2CCC", "U+2CCE", "U+2CD0", "U+2CD2", "U+2CD4", "U+2CD6",
     "U+2CD8", "U+2CDA", "U+2CDC", "U+2CDE", "U+2CE0", "U+2CE2", "U+2CEB", "U+2CED", "U+2CF2",
     "U+A640", "U+A642", "U+A644", "U+A646", "U+A648", "U+A64A", "U+A64C", "U+A64E", "U+A650",
     "U+A652", "U+A654", "U+A656", "U+A658", "U+A65A", "U+A65C", "U+A65E", "U+A660", "U+A662",
     "U+A664", "U+A666", "U+A668", "U+A66A", "U+A66C", "U+A680", "U+A682", "U+A684", "U+A686",
     "U+A688", "U+A68A", "U+A68C", "U+A68E", "U+A690", "U+A692", "U+A694", "U+A696", "U+A698",
     "U+A69A", "U+A722", "U+A724", "U+A726", "U+A728", "U+A72A", "U+A72C", "U+A72E", "U+A732",
     "U+A734", "U+A736", "U+A738", "U+A73A", "U+A73C", "U+A73E", "U+A740", "U+A742", "U+A744",
     "U+A746", "U+A748", "U+A74A", "U+A74C", "U+A74E", "U+A750", "U+A752", "U+A754", "U+A756",
     "U+A758", "U+A75A", "U+A75C", "U+A75E", "U+A760", "U+A762", "U+A764", "U+A766", "U+A768",
     "U+A76A", "U+A76C", "U+A76E", "U+A779", "U+A77B", "U+A77D", "U+A77E", "U+A780", "U+A782",
     "U+A784", "U+A786", "U+A78B", "U+A78D", "U+A790", "U+A792", "U+A796", "U+A798", "U+A79A",
     "U+A79C", "U+A79E", "U+A7A0", "U+A7A2", "U+A7A4", "U+A7A6", "U+A7A8", "U+A7AA", "U+A7AB",
     "U+A7AC", "U+A7AD", "U+A7AE", "U+A7B0", "U+A7B1", "U+A7B2", "U+A7B3", "U+A7B4", "U+A7B6",
     "U+A7B8", "U+A7BA", "U+A7BC", "U+A7BE", "U+A7C0", "U+A7C2", "U+A7C4", "U+A7C5", "U+A7C6",
     "U+A7C7", "U+A7C9", "U+A7CB", "U+A7CC", "U+A7CE", "U+A7D0", "U+A7D2", "U+A7D4", "U+A7D6",
     "U+A7D8", "U+A7DA", "U+A7DC", "U+A7F5", "U+FF21", "U+FF22", "U+FF23", "U+FF24", "U+FF25",
     "U+FF26", "U+FF27", "U+FF28", "U+FF29", "U+FF2A", "U+FF2B", "U+FF2C", "U+FF2D", "U+FF2E",
     "U+FF2F", "U+FF30", "U+FF31", "U+FF32", "U+FF33", "U+FF34", "U+FF35", "U+FF36", "U+FF37",
     "U+FF38", "U+FF39", "U+FF3A", "U+10400", "U+10401", "U+10402", "U+10403", "U+10404",
     "U+10405", "U+10406", "U+10407", "U+10408", "U+10409", "U+1040A", "U+1040B", "U+1040C",
     "U+1040D", "U+1040E", "U+1040F", "U+10410", "U+10411", "U+10412", "U+10413", "U+10414",
     "U+10415", "U+10416", "U+10417", "U+10418", "U+10419", "U+1041A", "U+1041B", "U+1041C",
     "U+1041D", "U+1041E", "U+1041F", "U+10420", "U+10421", "U+10422", "U+10423", "U+10424",
     "U+10425", "U+10426", "U+10427", "U+104B0", "U+104B1", "U+104B2", "U+104B3", "U+104B4",
     "U+104B5", "U+104B6", "U+104B7", "U+104B8", "U+104B9", "U+104BA", "U+104BB", "U+104BC",
     "U+104BD", "U+104BE", "U+104BF", "U+104C0", "U+104C1", "U+104C2", "U+104C3", "U+104C4",
     "U+104C5", "U+104C6", "U+104C7", "U+104C8", "U+104C9", "U+104CA", "U+104CB", "U+104CC",
     "U+104CD", "U+104CE", "U+104CF", "U+104D0", "U+104D1", "U+104D2", "U+104D3", "U+10570",
     "U+10571", "U+10572", "U+10573", "U+10574", "U+10575", "U+10576", "U+10577", "U+10578",
     "U+10579", "U+1057A", "U+1057C", "U+1057D", "U+1057E", "U+1057F", "U+10580", "U+10581",
     "U+10582", "U+10583", "U+10584", "U+10585", "U+10586", "U+10587", "U+10588", "U+10589",
     "U+1058A", "U+1058C", "U+1058D", "U+1058E", "U+1058F", "U+10590", "U+10591", "U+10592",
     "U+10594", "U+10595", "U+10C80", "U+10C81", "U+10C82", "U+10C83", "U+10C84", "U+10C85",
     "U+10C86", "U+10C87", "U+10C88", "U+10C89", "U+10C8A", "U+10C8B", "U+10C8C", "U+10C8D",
     "U+10C8E", "U+10C8F", "U+10C90", "U+10C91", "U+10C92", "U+10C93", "U+10C94", "U+10C95",
     "U+10C96", "U+10C97", "U+10C98", "U+10C99", "U+10C9A", "U+10C9B", "U+10C9C", "U+10C9D",
     "U+10C9E", "U+10C9F", "U+10CA0", "U+10CA1", "U+10CA2", "U+10CA3", "U+10CA4", "U+10CA5",
     "U+10CA6", "U+10CA7", "U+10CA8", "U+10CA9", "U+10CAA", "U+10CAB", "U+10CAC", "U+10CAD",
     "U+10CAE", "U+10CAF", "U+10CB0", "U+10CB1", "U+10CB2", "U+10D50", "U+10D51", "U+10D52",
     "U+10D53", "U+10D54", "U+10D55", "U+10D56", "U+10D57", "U+10D58", "U+10D59", "U+10D5A",
     "U+10D5B", "U+10D5C", "U+10D5D", "U+10D5E", "U+10D5F", "U+10D60", "U+10D61", "U+10D62",
     "U+10D63", "U+10D64", "U+10D65", "U+118A0", "U+118A1", "U+118A2", "U+118A3", "U+118A4",
     "U+118A5", "U+118A6", "U+118A7", "U+118A8", "U+118A9", "U+118AA", "U+118AB", "U+118AC",
     "U+118AD", "U+118AE", "U+118AF", "U+118B0", "U+118B1", "U+118B2", "U+118B3", "U+118B4",
     "U+118B5", "U+118B6", "U+118B7", "U+118B8", "U+118B9", "U+118BA", "U+118BB", "U+118BC",
     "U+118BD", "U+118BE", "U+118BF", "U+16E40", "U+16E41", "U+16E42", "U+16E43", "U+16E44",
     "U+16E45", "U+16E46", "U+16E47", "U+16E48", "U+16E49", "U+16E4A", "U+16E4B", "U+16E4C",
     "U+16E4D", "U+16E4E", "U+16E4F", "U+16E50", "U+16E51", "U+16E52", "U+16E53", "U+16E54",
     "U+16E55", "U+16E56", "U+16E57", "U+16E58", "U+16E59", "U+16E5A", "U+16E5B", "U+16E5C",
     "U+16E5D", "U+16E5E", "U+16E5F", "U+16EA0", "U+16EA1", "U+16EA2", "U+16EA3", "U+16EA4",
     "U+16EA5", "U+16EA6", "U+16EA7", "U+16EA8", "U+16EA9", "U+16EAA", "U+16EAB", "U+16EAC",
     "U+16EAD", "U+16EAE", "U+16EAF", "U+16EB0", "U+16EB1", "U+16EB2", "U+16EB3", "U+16EB4",
     "U+16EB5", "U+16EB6", "U+16EB7", "U+16EB8", "U+1D400", "U+1D401", "U+1D402", "U+1D403",
     "U+1D404", "U+1D405", "U+1D406", "U+1D407", "U+1D408", "U+1D409", "U+1D40A", "U+1D40B",
     "U+1D40C", "U+1D40D", "U+1D40E", "U+1D40F", "U+1D410", "U+1D411", "U+1D412", "U+1D413",
     "U+1D414", "U+1D415", "U+1D416", "U+1D417", "U+1D418", "U+1D419", "U+1D434", "U+1D435",
     "U+1D436", "U+1D437", "U+1D438", "U+1D439", "U+1D43A", "U+1D43B", "U+1D43C", "U+1D43D",
     "U+1D43E", "U+1D43F", "U+1D440", "U+1D441", "U+1D442", "U+1D443", "U+1D444", "U+1D445",
     "U+1D446", "U+1D447", "U+1D448", "U+1D449", "U+1D44A", "U+1D44B", "U+1D44C", "U+1D44D",
     "U+1D468", "U+1D469", "U+1D46A", "U+1D46B", "U+1D46C", "U+1D46D", "U+1D46E", "U+1D46F",
     "U+1D470", "U+1D471", "U+1D472", "U+1D473", "U+1D474", "U+1D475", "U+1D476", "U+1D477",
     "U+1D478", "U+1D479", "U+1D47A", "U+1D47B", "U+1D47C", "U+1D47D", "U+1D47E", "U+1D47F",
     "U+1D480", "U+1D481", "U+1D49C", "U+1D49E", "U+1D49F", "U+1D4A2", "U+1D4A5", "U+1D4A6",
     "U+1D4A9", "U+1D4AA", "U+1D4AB", "U+1D4AC", "U+1D4AE", "U+1D4AF", "U+1D4B0", "U+1D4B1",
     "U+1D4B2", "U+1D4B3", "U+1D4B4", "U+1D4B5", "U+1D4D0", "U+1D4D1", "U+1D4D2", "U+1D4D3",
     "U+1D4D4", "U+1D4D5", "U+1D4D6", "U+1D4D7", "U+1D4D8", "U+1D4D9", "U+1D4DA", "U+1D4DB",
     "U+1D4DC", "U+1D4DD", "U+1D4DE", "U+1D4DF", "U+1D4E0", "U+1D4E1", "U+1D4E2", "U+1D4E3",
     "U+1D4E4", "U+1D4E5", "U+1D4E6", "U+1D4E7", "U+1D4E8", "U+1D4E9", "U+1D504", "U+1D505",
     "U+1D507", "U+1D508", "U+1D509", "U+1D50A", "U+1D50D", "U+1D50E", "U+1D50F", "U+1D510",
     "U+1D511", "U+1D512", "U+1D513", "U+1D514", "U+1D516", "U+1D517", "U+1D518", "U+1D519",
     "U+1D51A", "U+1D51B", "U+1D51C", "U+1D538", "U+1D539", "U+1D53B", "U+1D53C", "U+1D53D",
     "U+1D53E", "U+1D540", "U+1D541", "U+1D542", "U+1D543", "U+1D544", "U+1D546", "U+1D54A",
     "U+1D54B", "U+1D54C", "U+1D54D", "U+1D54E", "U+1D54F", "U+1D550", "U+1D56C", "U+1D56D",
     "U+1D56E", "U+1D56F", "U+1D570", "U+1D571", "U+1D572", "U+1D573", "U+1D574", "U+1D575",
     "U+1D576", "U+1D577", "U+1D578", "U+1D579", "U+1D57A", "U+1D57B", "U+1D57C", "U+1D57D",
     "U+1D57E", "U+1D57F", "U+1D580", "U+1D581", "U+1D582", "U+1D583", "U+1D584", "U+1D585",
     "U+1D5A0", "U+1D5A1", "U+1D5A2", "U+1D5A3", "U+1D5A4", "U+1D5A5", "U+1D5A6", "U+1D5A7",
     "U+1D5A8", "U+1D5A9", "U+1D5AA", "U+1D5AB", "U+1D5AC", "U+1D5AD", "U+1D5AE", "U+1D5AF",
     "U+1D5B0", "U+1D5B1", "U+1D5B2", "U+1D5B3", "U+1D5B4", "U+1D5B5", "U+1D5B6", "U+1D5B7",
     "U+1D5B8", "U+1D5B9", "U+1D5D4", "U+1D5D5", "U+1D5D6", "U+1D5D7", "U+1D5D8", "U+1D5D9",
     "U+1D5DA", "U+1D5DB", "U+1D5DC", "U+1D5DD", "U+1D5DE", "U+1D5DF", "U+1D5E0", "U+1D5E1",
     "U+1D5E2", "U+1D5E3", "U+1D5E4", "U+1D5E5", "U+1D5E6", "U+1D5E7", "U+1D5E8", "U+1D5E9",
     "U+1D5EA", "U+1D5EB", "U+1D5EC", "U+1D5ED", "U+1D608", "U+1D609", "U+1D60A", "U+1D60B",
     "U+1D60C", "U+1D60D", "U+1D60E", "U+1D60F", "U+1D610", "U+1D611", "U+1D612", "U+1D613",
     "U+1D614", "U+1D615", "U+1D616", "U+1D617", "U+1D618", "U+1D619", "U+1D61A", "U+1D61B",
     "U+1D61C", "U+1D61D", "U+1D61E", "U+1D61F", "U+1D620", "U+1D621", "U+1D63C", "U+1D63D",
     "U+1D63E", "U+1D63F", "U+1D640", "U+1D641", "U+1D642", "U+1D643", "U+1D644", "U+1D645",
     "U+1D646", "U+1D647", "U+1D648", "U+1D649", "U+1D64A", "U+1D64B", "U+1D64C", "U+1D64D",
     "U+1D64E", "U+1D64F", "U+1D650", "U+1D651", "U+1D652", "U+1D653", "U+1D654", "U+1D655",
     "U+1D670", "U+1D671", "U+1D672", "U+1D673", "U+1D674", "U+1D675", "U+1D676", "U+1D677",
     "U+1D678", "U+1D679", "U+1D67A", "U+1D67B", "U+1D67C", "U+1D67D", "U+1D67E", "U+1D67F",
     "U+1D680", "U+1D681", "U+1D682", "U+1D683", "U+1D684", "U+1D685", "U+1D686", "U+1D687",
     "U+1D688", "U+1D689", "U+1D6A8", "U+1D6A9", "U+1D6AA", "U+1D6AB", "U+1D6AC", "U+1D6AD",
     "U+1D6AE", "U+1D6AF", "U+1D6B0", "U+1D6B1", "U+1D6B2", "U+1D6B3", "U+1D6B4", "U+1D6B5",
     "U+1D6B6", "U+1D6B7", "U+1D6B8", "U+1D6B9", "U+1D6BA", "U+1D6BB", "U+1D6BC", "U+1D6BD",
     "U+1D6BE", "U+1D6BF", "U+1D6C0", "U+1D6E2", "U+1D6E3", "U+1D6E4", "U+1D6E5", "U+1D6E6",
     "U+1D6E7", "U+1D6E8", "U+1D6E9", "U+1D6EA", "U+1D6EB", "U+1D6EC", "U+1D6ED", "U+1D6EE",
     "U+1D6EF", "U+1D6F0", "U+1D6F1", "U+1D6F2", "U+1D6F3", "U+1D6F4", "U+1D6F5", "U+1D6F6",
     "U+1D6F7", "U+1D6F8", "U+1D6F9", "U+1D6FA", "U+1D71C", "U+1D71D", "U+1D71E", "U+1D71F",
     "U+1D720", "U+1D721", "U+1D722", "U+1D723", "U+1D724", "U+1D725", "U+1D726", "U+1D727",
     "U+1D728", "U+1D729", "U+1D72A", "U+1D72B", "U+1D72C", "U+1D72D", "U+1D72E", "U+1D72F",
     "U+1D730", "U+1D731", "U+1D732", "U+1D733", "U+1D734", "U+1D756", "U+1D757", "U+1D758",
     "U+1D759", "U+1D75A", "U+1D75B", "U+1D75C", "U+1D75D", "U+1D75E", "U+1D75F", "U+1D760",
     "U+1D761", "U+1D762", "U+1D763", "U+1D764", "U+1D765", "U+1D766", "U+1D767", "U+1D768",
     "U+1D769", "U+1D76A", "U+1D76B", "U+1D76C", "U+1D76D", "U+1D76E", "U+1D790", "U+1D791",
     "U+1D792", "U+1D793", "U+1D794", "U+1D795", "U+1D796", "U+1D797", "U+1D798", "U+1D799",
     "U+1D79A", "U+1D79B", "U+1D79C", "U+1D79D", "U+1D79E", "U+1D79F", "U+1D7A0", "U+1D7A1",
     "U+1D7A2", "U+1D7A3", "U+1D7A4", "U+1D7A5", "U+1D7A6", "U+1D7A7", "U+1D7A8", "U+1D7CA",
     "U+1E900", "U+1E901", "U+1E902", "U+1E903", "U+1E904", "U+1E905", "U+1E906", "U+1E907",
     "U+1E908", "U+1E909", "U+1E90A", "U+1E90B", "U+1E90C", "U+1E90D", "U+1E90E", "U+1E90F",
     "U+1E910", "U+1E911", "U+1E912", "U+1E913", "U+1E914", "U+1E915", "U+1E916", "U+1E917",
     "U+1E918", "U+1E919", "U+1E91A", "U+1E91B", "U+1E91C", "U+1E91D", "U+1E91E", "U+1E91F",
     "U+1E920", "U+1E921", "U+1F130", "U+1F131", "U+1F132", "U+1F133", "U+1F134", "U+1F135",
     "U+1F136", "U+1F137", "U+1F138", "U+1F139", "U+1F13A", "U+1F13B", "U+1F13C", "U+1F13D",
     "U+1F13E", "U+1F13F", "U+1F140", "U+1F141", "U+1F142", "U+1F143", "U+1F144", "U+1F145",
     "U+1F146", "U+1F147", "U+1F148", "U+1F149", "U+1F150", "U+1F151", "U+1F152", "U+1F153",
     "U+1F154", "U+1F155", "U+1F156", "U+1F157", "U+1F158", "U+1F159", "U+1F15A", "U+1F15B",
     "U+1F15C", "U+1F15D", "U+1F15E", "U+1F15F", "U+1F160", "U+1F161", "U+1F162", "U+1F163",
     "U+1F164", "U+1F165", "U+1F166", "U+1F167", "U+1F168", "U+1F169", "U+1F170", "U+1F171",
     "U+1F172", "U+1F173", "U+1F174", "U+1F175", "U+1F176", "U+1F177", "U+1F178", "U+1F179",
     "U+1F17A", "U+1F17B", "U+1F17C", "U+1F17D", "U+1F17E", "U+1F17F", "U+1F180", "U+1F181",
     "U+1F182", "U+1F183", "U+1F184", "U+1F185", "U+1F186", "U+1F187", "U+1F188", "U+1F189"
    }

\* The characters that char::to_uppercase changes, each with the characters
\* it becomes (one, two or three: U+00DF becomes SS).
UppercaseMapping ==
    {
     <<"a", <<"A">>>>, <<"b", <<"B">>>>, <<"c", <<"C">>>>, <<"d", <<"D">>>>, <<"e", <<"E">>>>,
     <<"f", <<"F">>>>, <<"g", <<"G">>>>, <<"h", <<"H">>>>, <<"i", <<"I">>>>, <<"j", <<"J">>>>,
     <<"k", <<"K">>>>, <<"l", <<"L">>>>, <<"m", <<"M">>>>, <<"n", <<"N">>>>, <<"o", <<"O">>>>,
     <<"p", <<"P">>>>, <<"q", <<"Q">>>>, <<"r", <<"R">>>>, <<"s", <<"S">>>>, <<"t", <<"T">>>>,
     <<"u", <<"U">>>>, <<"v", <<"V">>>>, <<"w", <<"W">>>>, <<"x", <<"X">>>>, <<"y", <<"Y">>>>,
     <<"z", <<"Z">>>>, <<"U+00B5", <<"U+039C">>>>, <<"U+00DF", <<"S", "S">>>>,
     <<"U+00E0", <<"U+00C0">>>>, <<"U+00E1", <<"U+00C1">>>>, <<"U+00E2", <<"U+00C2">>>>,
     <<"U+00E3", <<"U+00C3">>>>, <<"U+00E4", <<"U+00C4">>>>, <<"U+00E5", <<"U+00C5">>>>,
     <<"U+00E6", <<"U+00C6">>>>, <<"U+00E7", <<"U+00C7">>>>, <<"U+00E8", <<"U+00C8">>>>,
     <<"U+00E9", <<"U+00C9">>>>, <<"U+00EA", <<"U+00CA">>>>, <<"U+00EB", <<"U+00CB">>>>,
     <<"U+00EC", <<"U+00CC">>>>, <<"U+00ED", <<"U+00CD">>>>, <<"U+00EE", <<"U+00CE">>>>,
     <<"U+00EF", <<"U+00CF">>>>, <<"U+00F0", <<"U+00D0">>>>, <<"U+00F1", <<"U+00D1">>>>,
     <<"U+00F2", <<"U+00D2">>>>, <<"U+00F3", <<"U+00D3">>>>, <<"U+00F4", <<"U+00D4">>>>,
     <<"U+00F5", <<"U+00D5">>>>, <<"U+00F6", <<"U+00D6">>>>, <<"U+00F8", <<"U+00D8">>>>,
     <<"U+00F9", <<"U+00D9">>>>, <<"U+00FA", <<"U+00DA">>>>, <<"U+00FB", <<"U+00DB">>>>,
     <<"U+00FC", <<"U+00DC">>>>, <<"U+00FD", <<"U+00DD">>>>, <<"U+00FE", <<"U+00DE">>>>,
     <<"U+00FF", <<"U+0178">>>>, <<"U+0101", <<"U+0100">>>>, <<"U+0103", <<"U+0102">>>>,
     <<"U+0105", <<"U+0104">>>>, <<"U+0107", <<"U+0106">>>>, <<"U+0109", <<"U+0108">>>>,
     <<"U+010B", <<"U+010A">>>>, <<"U+010D", <<"U+010C">>>>, <<"U+010F", <<"U+010E">>>>,
     <<"U+0111", <<"U+0110">>>>, <<"U+0113", <<"U+0112">>>>, <<"U+0115", <<"U+0114">>>>,
     <<"U+0117", <<"U+0116">>>>, <<"U+0119", <<"U+0118">>>>, <<"U+011B", <<"U+011A">>>>,
     <<"U+011D", <<"U+011C">>>>, <<"U+011F", <<"U+011E">>>>, <<"U+0121", <<"U+0120">>>>,
     <<"U+0123", <<"U+0122">>>>, <<"U+0125", <<"U+0124">>>>, <<"U+0127", <<"U+0126">>>>,
     <<"U+0129", <<"U+0128">>>>, <<"U+012B", <<"U+012A">>>>, <<"U+012D", <<"U+012C">>>>,
     <<"U+012F", <<"U+012E">>>>, <<"U+0131", <<"I">>>>, <<"U+0133", <<"U+0132">>>>,
     <<"U+0135", <<"U+0134">>>>, <<"U+0137", <<"U+0136">>>>, <<"U+013A", <<"U+0139">>>>,
     <<"U+013C", <<"U+013B">>>>, <<"U+013E", <<"U+013D">>>>, <<"U+0140", <<"U+013F">>>>,
     <<"U+0142", <<"U+0141">>>>, <<"U+0144", <<"U+0143">>>>, <<"U+0146", <<"U+0145">>>>,
     <<"U+0148", <<"U+0147">>>>, <<"U+0149", <<"U+02BC", "N">>>>, <<"U+014B", <<"U+014A">>>>,
     <<"U+014D", <<"U+014C">>>>, <<"U+014F", <<"U+014E">>>>, <<"U+0151", <<"U+0150">>>>,
     <<"U+0153", <<"U+0152">>>>, <<"U+0155", <<"U+0154">>>>, <<"U+0157", <<"U+0156">>>>,
     <<"U+0159", <<"U+0158">>>>, <<"U+015B", <<"U+015A">>>>, <<"U+015D", <<"U+015C">>>>,
     <<"U+015F", <<"U+015E">>>>, <<"U+0161", <<"U+0160">>>>, <<"U+0163", <<"U+0162">>>>,
     <<"U+0165", <<"U+0164">>>>, <<"U+0167", <<"U+0166">>>>, <<"U+0169", <<"U+0168">>>>,
     <<"U+016B", <<"U+016A">>>>, <<"U+016D", <<"U+016C">>>>, <<"U+016F", <<"U+016E">>>>,
     <<"U+0171", <<"U+0170">>>>, <<"U+0173", <<"U+0172">>>>, <<"U+0175", <<"U+0174">>>>,
     <<"U+0177", <<"U+0176">>>>, <<"U+017A", <<"U+0179">>>>, <<"U+017C", <<"U+017B">>>>,
     <<"U+017E", <<"U+017D">>>>, <<"U+017F", <<"S">>>>, <<"U+0180", <<"U+0243">>>>,
     <<"U+0183", <<"U+0182">>>>, <<"U+0185", <<"U+0184">>>>, <<"U+0188", <<"U+0187">>>>,
     <<"U+018C", <<"U+018B">>>>, <<"U+0192", <<"U+0191">>>>, <<"U+0195", <<"U+01F6">>>>,
     <<"U+0199", <<"U+0198">>>>, <<"U+019A", <<"U+023D">>>>, <<"U+019B", <<"U+A7DC">>>>,
     <<"U+019E", <<"U+0220">>>>, <<"U+01A1", <<"U+01A0">>>>, <<"U+01A3", <<"U+01A2">>>>,
     <<"U+01A5", <<"U+01A4">>>>, <<"U+01A8", <<"U+01A7">>>>, <<"U+01AD", <<"U+01AC">>>>,
     <<"U+01B0", <<"U+01AF">>>>, <<"U+01B4", <<"U+01B3">>>>, <<"U+01B6", <<"U+01B5">>>>,
     <<"U+01B9", <<"U+01B8">>>>, <<"U+01BD", <<"U+01BC">>>>, <<"U+01BF", <<"U+01F7">>>>,
     <<"U+01C5", <<"U+01C4">>>>, <<"U+01C6", <<"U+01C4">>>>, <<"U+01C8", <<"U+01C7">>>>,
     <<"U+01C9", <<"U+01C7">>>>, <<"U+01CB", <<"U+01CA">>>>, <<"U+01CC", <<"U+01CA">>>>,
     <<"U+01CE", <<"U+01CD">>>>, <<"U+01D0", <<"U+01CF">>>>, <<"U+01D2", <<"U+01D1">>>>,
     <<"U+01D4", <<"U+01D3">>>>, <<"U+01D6", <<"U+01D5">>>>, <<"U+01D8", <<"U+01D7">>>>,
     <<"U+01DA", <<"U+01D9">>>>, <<"U+01DC", <<"U+01DB">>>>, <<"U+01DD", <<"U+018E">>>>,
     <<"U+01DF", <<"U+01DE">>>>, <<"U+01E1", <<"U+01E0">>>>, <<"U+01E3", <<"U+01E2">>>>,
     <<"U+01E5", <<"U+01E4">>>>, <<"U+01E7", <<"U+01E6">>>>, <<"U+01E9", <<"U+01E8">>>>,
     <<"U+01EB", <<"U+01EA">>>>, <<"U+01ED", <<"U+01EC">>>>, <<"U+01EF", <<"U+01EE">>>>,
     <<"U+01F0", <<"J", "U+030C">>>>, <<"U+01F2", <<"U+01F1">>>>, <<"U+01F3", <<"U+01F1">>>>,
     <<"U+01F5", <<"U+01F4">>>>, <<"U+01F9", <<"U+01F8">>>>, <<"U+01FB", <<"U+01FA">>>>,
     <<"U+01FD", <<"U+01FC">>>>, <<"U+01FF", <<"U+01FE">>>>, <<"U+0201", <<"U+0200">>>>,
     <<"U+0203", <<"U+0202">>>>, <<"U+0205", <<"U+0204">>>>, <<"U+0207", <<"U+0206">>>>,
     <<"U+0209", <<"U+0208">>>>, <<"U+020B", <<"U+020A">>>>, <<"U+020D", <<"U+020C">>>>,
     <<"U+020F", <<"U+020E">>>>, <<"U+0211", <<"U+0210">>>>, <<"U+0213", <<"U+0212">>>>,
     <<"U+0215", <<"U+0214">>>>, <<"U+0217", <<"U+0216">>>>, <<"U+0219", <<"U+0218">>>>,
     <<"U+021B", <<"U+021A">>>>, <<"U+021D", <<"U+021C">>>>, <<"U+021F", <<"U+021E">>>>,
     <<"U+0223", <<"U+0222">>>>, <<"U+0225", <<"U+0224">>>>, <<"U+0227", <<"U+0226">>>>,
     <<"U+0229", <<"U+0228">>>>, <<"U+022B", <<"U+022A">>>>, <<"U+022D", <<"U+022C">>>>,
     <<"U+022F", <<"U+022E">>>>, <<"U+0231", <<"U+0230">>>>, <<"U+0233", <<"U+0232">>>>,
     <<"U+023C", <<"U+023B">>>>, <<"U+023F", <<"U+2C7E">>>>, <<"U+0240", <<"U+2C7F">>>>,
     <<"U+0242", <<"U+0241">>>>, <<"U+0247", <<"U+0246">>>>, <<"U+0249", <<"U+0248">>>>,
     <<"U+024B", <<"U+024A">>>>, <<"U+024D", <<"U+024C">>>>, <<"U+024F", <<"U+024E">>>>,
     <<"U+0250", <<"U+2C6F">>>>, <<"U+0251", <<"U+2C6D">>>>, <<"U+0252", <<"U+2C70">>>>,
     <<"U+0253", <<"U+0181">>>>, <<"U+0254", <<"U+0186">>>>, <<"U+0256", <<"U+0189">>>>,
     <<"U+0257", <<"U+018A">>>>, <<"U+0259", <<"U+018F">>>>, <<"U+025B", <<"U+0190">>>>,
     <<"U+025C", <<"U+A7AB">>>>, <<"U+0260", <<"U+0193">>>>, <<"U+0261", <<"U+A7AC">>>>,
     <<"U+0263", <<"U+0194">>>>, <<"U+0264", <<"U+A7CB">>>>, <<"U+0265", <<"U+A78D">>>>,
     <<"U+0266", <<"U+A7AA">>>>, <<"U+0268", <<"U+0197">>>>, <<"U+0269", <<"U+0196">>>>,
     <<"U+026A", <<"U+A7AE">>>>, <<"U+026B", <<"U+2C62">>>>, <<"U+026C", <<"U+A7AD">>>>,
     <<"U+026F", <<"U+019C">>>>, <<"U+0271", <<"U+2C6E">>>>, <<"U+0272", <<"U+019D">>>>,
     <<"U+0275", <<"U+019F">>>>, <<"U+027D", <<"U+2C64">>>>, <<"U+0280", <<"U+01A6">>>>,
     <<"U+0282", <<"U+A7C5">>>>, <<"U+0283", <<"U+01A9">>>>, <<"U+0287", <<"U+A7B1">>>>,
     <<"U+0288", <<"U+01AE">>>>, <<"U+0289", <<"U+0244">>>>, <<"U+028A", <<"U+01B1">>>>,
     <<"U+028B", <<"U+01B2">>>>, <<"U+028C", <<"U+0245">>>>, <<"U+0292", <<"U+01B7">>>>,
     <<"U+029D", <<"U+A7B2">>>>, <<"U+029E", <<"U+A7B0">>>>, <<"U+0345", <<"U+0399">>>>,
     <<"U+0371", <<"U+0370">>>>, <<"U+0373", <<"U+0372">>>>, <<"U+0377", <<"U+0376">>>>,
     <<"U+037B", <<"U+03FD">>>>, <<"U+037C", <<"U+03FE">>>>, <<"U+037D", <<"U+03FF">>>>,
     <<"U+0390", <<"U+0399", "U+0308", "U+0301">>>>, <<"U+03AC", <<"U+0386">>>>,
     <<"U+03AD", <<"U+0388">>>>, <<"U+03AE", <<"U+0389">>>>, <<"U+03AF", <<"U+038A">>>>,
     <<"U+03B0", <<"U+03A5", "U+0308", "U+0301">>>>, <<"U+03B1", <<"U+0391">>>>,
     <<"U+03B2", <<"U+0392">>>>, <<"U+03B3", <<"U+0393">>>>, <<"U+03B4", <<"U+0394">>>>,
     <<"U+03B5", <<"U+0395">>>>, <<"U+03B6", <<"U+0396">>>>, <<"U+03B7", <<"U+0397">>>>,
     <<"U+03B8", <<"U+0398">>>>, <<"U+03B9", <<"U+0399">>>>, <<"U+03BA", <<"U+039A">>>>,
     <<"U+03BB", <<"U+039B">>>>, <<"U+03BC", <<"U+039C">>>>, <<"U+03BD", <<"U+039D">>>>,
     <<"U+03BE", <<"U+039E">>>>, <<"U+03BF", <<"U+039F">>>>, <<"U+03C0", <<"U+03A0">>>>,
     <<"U+03C1", <<"U+03A1">>>>, <<"U+03C2", <<"U+03A3">>>>, <<"U+03C3", <<"U+03A3">>>>,
     <<"U+03C4", <<"U+03A4">>>>, <<"U+03C5", <<"U+03A5">>>>, <<"U+03C6", <<"U+03A6">>>>,
     <<"U+03C7", <<"U+03A7">>>>, <<"U+03C8", <<"U+03A8">>>>, <<"U+03C9", <<"U+03A9">>>>,
     <<"U+03CA", <<"U+03AA">>>>, <<"U+03CB", <<"U+03AB">>>>, <<"U+03CC", <<"U+038C">>>>,
     <<"U+03CD", <<"U+038E">>>>, <<"U+03CE", <<"U+038F">>>>, <<"U+03D0", <<"U+0392">>>>,
     <<"U+03D1", <<"U+0398">>>>, <<"U+03D5", <<"U+03A6">>>>, <<"U+03D6", <<"U+03A0">>>>,
     <<"U+03D7", <<"U+03CF">>>>, <<"U+03D9", <<"U+03D8">>>>, <<"U+03DB", <<"U+03DA">>>>,
     <<"U+03DD", <<"U+03DC">>>>, <<"U+03DF", <<"U+03DE">>>>, <<"U+03E1", <<"U+03E0">>>>,
     <<"U+03E3", <<"U+03E2">>>>, <<"U+03E5", <<"U+03E4">>>>, <<"U+03E7", <<"U+03E6">>>>,
     <<"U+03E9", <<"U+03E8">>>>, <<"U+03EB", <<"U+03EA">>>>, <<"U+03ED", <<"U+03EC">>>>,
     <<"U+03EF", <<"U+03EE">>>>, <<"U+03F0", <<"U+039A">>>>, <<"U+03F1", <<"U+03A1">>>>,
     <<"U+03F2", <<"U+03F9">>>>, <<"U+03F3", <<"U+037F">>>>, <<"U+03F5", <<"U+0395">>>>,
     <<"U+03F8", <<"U+03F7">>>>, <<"U+03FB", <<"U+03FA">>>>, <<"U+0430", <<"U+0410">>>>,
     <<"U+0431", <<"U+0411">>>>, <<"U+0432", <<"U+0412">>>>, <<"U+0433", <<"U+0413">>>>,
     <<"U+0434", <<"U+0414">>>>, <<"U+0435", <<"U+0415">>>>, <<"U+0436", <<"U+0416">>>>,
     <<"U+0437", <<"U+0417">>>>, <<"U+0438", <<"U+0418">>>>, <<"U+0439", <<"U+0419">>>>,
     <<"U+043A", <<"U+041A">>>>, <<"U+043B", <<"U+041B">>>>, <<"U+043C", <<"U+041C">>>>,
     <<"U+043D", <<"U+041D">>>>, <<"U+043E", <<"U+041E">>>>, <<"U+043F", <<"U+041F">>>>,
     <<"U+0440", <<"U+0420">>>>, <<"U+0441", <<"U+0421">>>>, <<"U+0442", <<"U+0422">>>>,
     <<"U+0443", <<"U+0423">>>>, <<"U+0444", <<"U+0424">>>>, <<"U+0445", <<"U+0425">>>>,
     <<"U+0446", <<"U+0426">>>>, <<"U+0447", <<"U+0427">>>>, <<"U+0448", <<"U+0428">>>>,
     <<"U+0449", <<"U+0429">>>>, <<"U+044A", <<"U+042A">>>>, <<"U+044B", <<"U+042B">>>>,
     <<"U+044C", <<"U+042C">>>>, <<"U+044D", <<"U+042D">>>>, <<"U+044E", <<"U+042E">>>>,
     <<"U+044F", <<"U+042F">>>>, <<"U+0450", <<"U+0400">>>>, <<"U+0451", <<"U+0401">>>>,
     <<"U+0452", <<"U+0402">>>>, <<"U+0453", <<"U+0403">>>>, <<"U+0454", <<"U+0404">>>>,
     <<"U+0455", <<"U+0405">>>>, <<"U+0456", <<"U+0406">>>>, <<"U+0457", <<"U+0407">>>>,
     <<"U+0458", <<"U+0408">>>>, <<"U+0459", <<"U+0409">>>>, <<"U+045A", <<"U+040A">>>>,
     <<"U+045B", <<"U+040B">>>>, <<"U+045C", <<"U+040C">>>>, <<"U+045D", <<"U+040D">>>>,
     <<"U+045E", <<"U+040E">>>>, <<"U+045F", <<"U+040F">>>>, <<"U+0461", <<"U+0460">>>>,
     <<"U+0463", <<"U+0462">>>>, <<"U+0465", <<"U+0464">>>>, <<"U+0467", <<"U+0466">>>>,
     <<"U+0469", <<"U+0468">>>>, <<"U+046B", <<"U+046A">>>>, <<"U+046D", <<"U+046C">>>>,
     <<"U+046F", <<"U+046E">>>>, <<"U+0471", <<"U+0470">>>>, <<"U+0473", <<"U+0472">>>>,
     <<"U+0475", <<"U+0474">>>>, <<"U+0477", <<"U+0476">>>>, <<"U+0479", <<"U+0478">>>>,
     <<"U+047B", <<"U+047A">>>>, <<"U+047D", <<"U+047C">>>>, <<"U+047F", <<"U+047E">>>>,
     <<"U+0481", <<"U+0480">>>>, <<"U+048B", <<"U+048A">>>>, <<"U+048D", <<"U+048C">>>>,
     <<"U+048F", <<"U+048E">>>>, <<"U+0491", <<"U+0490">>>>, <<"U+0493", <<"U+0492">>>>,
     <<"U+0495", <<"U+0494">>>>, <<"U+0497", <<"U+0496">>>>, <<"U+0499", <<"U+0498">>>>,
     <<"U+049B", <<"U+049A">>>>, <<"U+049D", <<"U+049C">>>>, <<"U+049F", <<"U+049E">>>>,
     <<"U+04A1", <<"U+04A0">>>>, <<"U+04A3", <<"U+04A2">>>>, <<"U+04A5", <<"U+04A4">>>>,
     <<"U+04A7", <<"U+04A6">>>>, <<"U+04A9", <<"U+04A8">>>>, <<"U+04AB", <<"U+04AA">>>>,
     <<"U+04AD", <<"U+04AC">>>>, <<"U+04AF", <<"U+04AE">>>>, <<"U+04B1", <<"U+04B0">>>>,
     <<"U+04B3", <<"U+04B2">>>>, <<"U+04B5", <<"U+04B4">>>>, <<"U+04B7", <<"U+04B6">>>>,
     <<"U+04B9", <<"U+04B8">>>>, <<"U+04BB", <<"U+04BA">>>>, <<"U+04BD", <<"U+04BC">>>>,
     <<"U+04BF", <<"U+04BE">>>>, <<"U+04C2", <<"U+04C1">>>>, <<"U+04C4", <<"U+04C3">>>>,
     <<"U+04C6", <<"U+04C5">>>>, <<"U+04C8", <<"U+04C7">>>>, <<"U+04CA", <<"U+04C9">>>>,
     <<"U+04CC", <<"U+04CB">>>>, <<"U+04CE", <<"U+04CD">>>>, <<"U+04CF", <<"U+04C0">>>>,
     <<"U+04D1", <<"U+04D0">>>>, <<"U+04D3", <<"U+04D2">>>>, <<"U+04D5", <<"U+04D4">>>>,
     <<"U+04D7", <<"U+04D6">>>>, <<"U+04D9", <<"U+04D8">>>>, <<"U+04DB", <<"U+04DA">>>>,
     <<"U+04DD", <<"U+04DC">>>>, <<"U+04DF", <<"U+04DE">>>>, <<"U+04E1", <<"U+04E0">>>>,
     <<"U+04E3", <<"U+04E2">>>>, <<"U+04E5", <<"U+04E4">>>>, <<"U+04E7", <<"U+04E6">>>>,
     <<"U+04E9", <<"U+04E8">>>>, <<"U+04EB", <<"U+04EA">>>>, <<"U+04ED", <<"U+04EC">>>>,
     <<"U+04EF", <<"U+04EE">>>>, <<"U+04F1", <<"U+04F0">>>>, <<"U+04F3", <<"U+04F2">>>>,
     <<"U+04F5", <<"U+04F4">>>>, <<"U+04F7", <<"U+04F6">>>>, <<"U+04F9", <<"U+04F8">>>>,
     <<"U+04FB", <<"U+04FA">>>>, <<"U+04FD", <<"U+04FC">>>>, <<"U+04FF", <<"U+04FE">>>>,
     <<"U+0501", <<"U+0500">>>>, <<"U+0503", <<"U+0502">>>>, <<"U+0505", <<"U+0504">>>>,
     <<"U+0507", <<"U+0506">>>>, <<"U+0509", <<"U+0508">>>>, <<"U+050B", <<"U+050A">>>>,
     <<"U+050D", <<"U+050C">>>>, <<"U+050F", <<"U+050E">>>>, <<"U+0511", <<"U+0510">>>>,
     <<"U+0513", <<"U+0512">>>>, <<"U+0515", <<"U+0514">>>>, <<"U+0517", <<"U+0516">>>>,
     <<"U+0519", <<"U+0518">>>>, <<"U+051B", <<"U+051A">>>>, <<"U+051D", <<"U+051C">>>>,
     <<"U+051F", <<"U+051E">>>>, <<"U+0521", <<"U+0520">>>>, <<"U+0523", <<"U+0522">>>>,
     <<"U+0525", <<"U+0524">>>>, <<"U+0527", <<"U+0526">>>>, <<"U+0529", <<"U+0528">>>>,
     <<"U+052B", <<"U+052A">>>>, <<"U+052D", <<"U+052C">>>>, <<"U+052F", <<"U+052E">>>>,
     <<"U+0561", <<"U+0531">>>>, <<"U+0562", <<"U+0532">>>>, <<"U+0563", <<"U+0533">>>>,
     <<"U+0564", <<"U+0534">>>>, <<"U+0565", <<"U+0535">>>>, <<"U+0566", <<"U+0536">>>>,
     <<"U+0567", <<"U+0537">>>>, <<"U+0568", <<"U+0538">>>>, <<"U+0569", <<"U+0539">>>>,
     <<"U+056A", <<"U+053A">>>>, <<"U+056B", <<"U+053B">>>>, <<"U+056C", <<"U+053C">>>>,
     <<"U+056D", <<"U+053D">>>>, <<"U+056E", <<"U+053E">>>>, <<"U+056F", <<"U+053F">>>>,
     <<"U+0570", <<"U+0540">>>>, <<"U+0571", <<"U+0541">>>>, <<"U+0572", <<"U+0542">>>>,
     <<"U+0573", <<"U+0543">>>>, <<"U+0574", <<"U+0544">>>>, <<"U+0575", <<"U+0545">>>>,
     <<"U+0576", <<"U+0546">>>>, <<"U+0577", <<"U+0547">>>>, <<"U+0578", <<"U+0548">>>>,
     <<"U+0579", <<"U+0549">>>>, <<"U+057A", <<"U+054A">>>>, <<"U+057B", <<"U+054B">>>>,
     <<"U+057C", <<"U+054C">>>>, <<"U+057D", <<"U+054D">>>>, <<"U+057E", <<"U+054E">>>>,
     <<"U+057F", <<"U+054F">>>>, <<"U+0580", <<"U+0550">>>>, <<"U+0581", <<"U+0551">>>>,
     <<"U+0582", <<"U+0552">>>>, <<"U+0583", <<"U+0553">>>>, <<"U+0584", <<"U+0554">>>>,
     <<"U+0585", <<"U+0555">>>>, <<"U+0586", <<"U+0556">>>>,
     <<"U+0587", <<"U+0535", "U+0552">>>>, <<"U+10D0", <<"U+1C90">>>>,
     <<"U+10D1", <<"U+1C91">>>>, <<"U+10D2", <<"U+1C92">>>>, <<"U+10D3", <<"U+1C93">>>>,
     <<"U+10D4", <<"U+1C94">>>>, <<"U+10D5", <<"U+1C95">>>>, <<"U+10D6", <<"U+1C96">>>>,
     <<"U+10D7", <<"U+1C97">>>>, <<"U+10D8", <<"U+1C98">>>>, <<"U+10D9", <<"U+1C99">>>>,
     <<"U+10DA", <<"U+1C9A">>>>, <<"U+10DB", <<"U+1C9B">>>>, <<"U+10DC", <<"U+1C9C">>>>,
     <<"U+10DD", <<"U+1C9D">>>>, <<"U+10DE", <<"U+1C9E">>>>, <<"U+10DF", <<"U+1C9F">>>>,
     <<"U+10E0", <<"U+1CA0">>>>, <<"U+10E1", <<"U+1CA1">>>>, <<"U+10E2", <<"U+1CA2">>>>,
     <<"U+10E3", <<"U+1CA3">>>>, <<"U+10E4", <<"U+1CA4">>>>, <<"U+10E5", <<"U+1CA5">>>>,
     <<"U+10E6", <<"U+1CA6">>>>, <<"U+10E7", <<"U+1CA7">>>>, <<"U+10E8", <<"U+1CA8">>>>,
     <<"U+10E9", <<"U+1CA9">>>>, <<"U+10EA", <<"U+1CAA">>>>, <<"U+10EB", <<"U+1CAB">>>>,
     <<"U+10EC", <<"U+1CAC">>>>, <<"U+10ED", <<"U+1CAD">>>>, <<"U+10EE", <<"U+1CAE">>>>,
     <<"U+10EF", <<"U+1CAF">>>>, <<"U+10F0", <<"U+1CB0">>>>, <<"U+10F1", <<"U+1CB1">>>>,
     <<"U+10F2", <<"U+1CB2">>>>, <<"U+10F3", <<"U+1CB3">>>>, <<"U+10F4", <<"U+1CB4">>>>,
     <<"U+10F5", <<"U+1CB5">>>>, <<"U+10F6", <<"U+1CB6">>>>, <<"U+10F7", <<"U+1CB7">>>>,
     <<"U+10F8", <<"U+1CB8">>>>, <<"U+10F9", <<"U+1CB9">>>>, <<"U+10FA", <<"U+1CBA">>>>,
     <<"U+10FD", <<"U+1CBD">>>>, <<"U+10FE", <<"U+1CBE">>>>, <<"U+10FF", <<"U+1CBF">>>>,
     <<"U+13F8", <<"U+13F0">>>>, <<"U+13F9", <<"U+13F1">>>>, <<"U+13FA", <<"U+13F2">>>>,
     <<"U+13FB", <<"U+13F3">>>>, <<"U+13FC", <<"U+13F4">>>>, <<"U+13FD", <<"U+13F5">>>>,
     <<"U+1C80", <<"U+0412">>>>, <<"U+1C81", <<"U+0414">>>>, <<"U+1C82", <<"U+041E">>>>,
     <<"U+1C83", <<"U+0421">>>>, <<"U+1C84", <<"U+0422">>>>, <<"U+1C85", <<"U+0422">>>>,
     <<"U+1C86", <<"U+042A">>>>, <<"U+1C87", <<"U+0462">>>>, <<"U+1C88", <<"U+A64A">>>>,
     <<"U+1C8A", <<"U+1C89">>>>, <<"U+1D79", <<"U+A77D">>>>, <<"U+1D7D", <<"U+2C63">>>>,
     <<"U+1D8E", <<"U+A7C6">>>>, <<"U+1E01", <<"U+1E00">>>>, <<"U+1E03", <<"U+1E02">>>>,
     <<"U+1E05", <<"U+1E04">>>>, <<"U+1E07", <<"U+1E06">>>>, <<"U+1E09", <<"U+1E08">>>>,
     <<"U+1E0B", <<"U+1E0A">>>>, <<"U+1E0D", <<"U+1E0C">>>>, <<"U+1E0F", <<"U+1E0E">>>>,
     <<"U+1E11", <<"U+1E10">>>>, <<"U+1E13", <<"U+1E12">>>>, <<"U+1E15", <<"U+1E14">>>>,
     <<"U+1E17", <<"U+1E16">>>>, <<"U+1E19", <<"U+1E18">>>>, <<"U+1E1B", <<"U+1E1A">>>>,
     <<"U+1E1D", <<"U+1E1C">>>>, <<"U+1E1F", <<"U+1E1E">>>>, <<"U+1E21", <<"U+1E20">>>>,
     <<"U+1E23", <<"U+1E22">>>>, <<"U+1E25", <<"U+1E24">>>>, <<"U+1E27", <<"U+1E26">>>>,
     <<"U+1E29", <<"U+1E28">>>>, <<"U+1E2B", <<"U+1E2A">>>>, <<"U+1E2D", <<"U+1E2C">>>>,
     <<"U+1E2F", <<"U+1E2E">>>>, <<"U+1E31", <<"U+1E30">>>>, <<"U+1E33", <<"U+1E32">>>>,
     <<"U+1E35", <<"U+1E34">>>>, <<"U+1E37", <<"U+1E36">>>>, <<"U+1E39", <<"U+1E38">>>>,
     <<"U+1E3B", <<"U+1E3A">>>>, <<"U+1E3D", <<"U+1E3C">>>>, <<"U+1E3F", <<"U+1E3E">>>>,
     <<"U+1E41", <<"U+1E40">>>>, <<"U+1E43", <<"U+1E42">>>>, <<"U+1E45", <<"U+1E44">>>>,
     <<"U+1E47", <<"U+1E46">>>>, <<"U+1E49", <<"U+1E48">>>>, <<"U+1E4B", <<"U+1E4A">>>>,
     <<"U+1E4D", <<"U+1E4C">>>>, <<"U+1E4F", <<"U+1E4E">>>>, <<"U+1E51", <<"U+1E50">>>>,
     <<"U+1E53", <<"U+1E52">>>>, <<"U+1E55", <<"U+1E54">>>>, <<"U+1E57", <<"U+1E56">>>>,
     <<"U+1E59", <<"U+1E58">>>>, <<"U+1E5B", <<"U+1E5A">>>>, <<"U+1E5D", <<"U+1E5C">>>>,
     <<"U+1E5F", <<"U+1E5E">>>>, <<"U+1E61", <<"U+1E60">>>>, <<"U+1E63", <<"U+1E62">>>>,
     <<"U+1E65", <<"U+1E64">>>>, <<"U+1E67", <<"U+1E66">>>>, <<"U+1E69", <<"U+1E68">>>>,
     <<"U+1E6B", <<"U+1E6A">>>>, <<"U+1E6D", <<"U+1E6C">>>>, <<"U+1E6F", <<"U+1E6E">>>>,
     <<"U+1E71", <<"U+1E70">>>>, <<"U+1E73", <<"U+1E72">>>>, <<"U+1E75", <<"U+1E74">>>>,
     <<"U+1E77", <<"U+1E76">>>>, <<"U+1E79", <<"U+1E78">>>>, <<"U+1E7B", <<"U+1E7A">>>>,
     <<"U+1E7D", <<"U+1E7C">>>>, <<"U+1E7F", <<"U+1E7E">>>>, <<"U+1E81", <<"U+1E80">>>>,
     <<"U+1E83", <<"U+1E82">>>>, <<"U+1E85", <<"U+1E84">>>>, <<"U+1E87", <<"U+1E86">>>>,
     <<"U+1E89", <<"U+1E88">>>>, <<"U+1E8B", <<"U+1E8A">>>>, <<"U+1E8D", <<"U+1E8C">>>>,
     <<"U+1E8F", <<"U+1E8E">>>>, <<"U+1E91", <<"U+1E90">>>>, <<"U+1E93", <<"U+1E92">>>>,
     <<"U+1E95", <<"U+1E94">>>>, <<"U+1E96", <<"H", "U+0331">>>>,
     <<"U+1E97", <<"T", "U+0308">>>>, <<"U+1E98", <<"W", "U+030A">>>>,
     <<"U+1E99", <<"Y", "U+030A">>>>, <<"U+1E9A", <<"A", "U+02BE">>>>,
     <<"U+1E9B", <<"U+1E60">>>>, <<"U+1EA1", <<"U+1EA0">>>>, <<"U+1EA3", <<"U+1EA2">>>>,
     <<"U+1EA5", <<"U+1EA4">>>>, <<"U+1EA7", <<"U+1EA6">>>>, <<"U+1EA9", <<"U+1EA8">>>>,
     <<"U+1EAB", <<"U+1EAA">>>>, <<"U+1EAD", <<"U+1EAC">>>>, <<"U+1EAF", <<"U+1EAE">>>>,
     <<"U+1EB1", <<"U+1EB0">>>>, <<"U+1EB3", <<"U+1EB2">>>>, <<"U+1EB5", <<"U+1EB4">>>>,
     <<"U+1EB7", <<"U+1EB6">>>>, <<"U+1EB9", <<"U+1EB8">>>>, <<"U+1EBB", <<"U+1EBA">>>>,
     <<"U+1EBD", <<"U+1EBC">>>>, <<"U+1EBF", <<"U+1EBE">>>>, <<"U+1EC1", <<"U+1EC0">>>>,
     <<"U+1EC3", <<"U+1EC2">>>>, <<"U+1EC5", <<"U+1EC4">>>>, <<"U+1EC7", <<"U+1EC6">>>>,
     <<"U+1EC9", <<"U+1EC8">>>>, <<"U+1ECB", <<"U+1ECA">>>>, <<"U+1ECD", <<"U+1ECC">>>>,
     <<"U+1ECF", <<"U+1ECE">>>>, <<"U+1ED1", <<"U+1ED0">>>>, <<"U+1ED3", <<"U+1ED2">>>>,
     <<"U+1ED5", <<"U+1ED4">>>>, <<"U+1ED7", <<"U+1ED6">>>>, <<"U+1ED9", <<"U+1ED8">>>>,
     <<"U+1EDB", <<"U+1EDA">>>>, <<"U+1EDD", <<"U+1EDC">>>>, <<"U+1EDF", <<"U+1EDE">>>>,
     <<"U+1EE1", <<"U+1EE0">>>>, <<"U+1EE3", <<"U+1EE2">>>>, <<"U+1EE5", <<"U+1EE4">>>>,
     <<"U+1EE7", <<"U+1EE6">>>>, <<"U+1EE9", <<"U+1EE8">>>>, <<"U+1EEB", <<"U+1EEA">>>>,
     <<"U+1EED", <<"U+1EEC">>>>, <<"U+1EEF", <<"U+1EEE">>>>, <<"U+1EF1", <<"U+1EF0">>>>,
     <<"U+1EF3", <<"U+1EF2">>>>, <<"U+1EF5", <<"U+1EF4">>>>, <<"U+1EF7", <<"U+1EF6">>>>,
     <<"U+1EF9", <<"U+1EF8">>>>, <<"U+1EFB", <<"U+1EFA">>>>, <<"U+1EFD", <<"U+1EFC">>>>,
     <<"U+1EFF", <<"U+1EFE">>>>, <<"U+1F00", <<"U+1F08">>>>, <<"U+1F01", <<"U+1F09">>>>,
     <<"U+1F02", <<"U+1F0A">>>>, <<"U+1F03", <<"U+1F0B">>>>, <<"U+1F04", <<"U+1F0C">>>>,
     <<"U+1F05", <<"U+1F0D">>>>, <<"U+1F06", <<"U+1F0E">>>>, <<"U+1F07", <<"U+1F0F">>>>,
     <<"U+1F10", <<"U+1F18">>>>, <<"U+1F11", <<"U+1F19">>>>, <<"U+1F12", <<"U+1F1A">>>>,
     <<"U+1F13", <<"U+1F1B">>>>, <<"U+1F14", <<"U+1F1C">>>>, <<"U+1F15", <<"U+1F1D">>>>,
     <<"U+1F20", <<"U+1F28">>>>, <<"U+1F21", <<"U+1F29">>>>, <<"U+1F22", <<"U+1F2A">>>>,
     <<"U+1F23", <<"U+1F2B">>>>, <<"U+1F24", <<"U+1F2C">>>>, <<"U+1F25", <<"U+1F2D">>>>,
     <<"U+1F26", <<"U+1F2E">>>>, <<"U+1F27", <<"U+1F2F">>>>, <<"U+1F30", <<"U+1F38">>>>,
     <<"U+1F31", <<"U+1F39">>>>, <<"U+1F32", <<"U+1F3A">>>>, <<"U+1F33", <<"U+1F3B">>>>,
     <<"U+1F34", <<"U+1F3C">>>>, <<"U+1F35", <<"U+1F3D">>>>, <<"U+1F36", <<"U+1F3E">>>>,
     <<"U+1F37", <<"U+1F3F">>>>, <<"U+1F40", <<"U+1F48">>>>, <<"U+1F41", <<"U+1F49">>>>,
     <<"U+1F42", <<"U+1F4A">>>>, <<"U+1F43", <<"U+1F4B">>>>, <<"U+1F44", <<"U+1F4C">>>>,
     <<"U+1F45", <<"U+1F4D">>>>, <<"U+1F50", <<"U+03A5", "U+0313">>>>,
     <<"U+1F51", <<"U+1F59">>>>, <<"U+1F52", <<"U+03A5", "U+0313", "U+0300">>>>,
     <<"U+1F53", <<"U+1F5B">>>>, <<"U+1F54", <<"U+03A5", "U+0313", "U+0301">>>>,
     <<"U+1F55", <<"U+1F5D">>>>, <<"U+1F56", <<"U+03A5", "U+0313", "U+0342">>>>,
     <<"U+1F57", <<"U+1F5F">>>>, <<"U+1F60", <<"U+1F68">>>>, <<"U+1F61", <<"U+1F69">>>>,
     <<"U+1F62", <<"U+1F6A">>>>, <<"U+1F63", <<"U+1F6B">>>>, <<"U+1F64", <<"U+1F6C">>>>,
     <<"U+1F65", <<"U+1F6D">>>>, <<"U+1F66", <<"U+1F6E">>>>, <<"U+1F67", <<"U+1F6F">>>>,
     <<"U+1F70", <<"U+1FBA">>>>, <<"U+1F71", <<"U+1FBB">>>>, <<"U+1F72", <<"U+1FC8">>>>,
     <<"U+1F73", <<"U+1FC9">>>>, <<"U+1F74", <<"U+1FCA">>>>, <<"U+1F75", <<"U+1FCB">>>>,
     <<"U+1F76", <<"U+1FDA">>>>, <<"U+1F77", <<"U+1FDB">>>>, <<"U+1F78", <<"U+1FF8">>>>,
     <<"U+1F79", <<"U+1FF9">>>>, <<"U+1F7A", <<"U+1FEA">>>>, <<"U+1F7B", <<"U+1FEB">>>>,
     <<"U+1F7C", <<"U+1FFA">>>>, <<"U+1F7D", <<"U+1FFB">>>>,
     <<"U+1F80", <<"U+1F08", "U+0399">>>>, <<"U+1F81", <<"U+1F09", "U+0399">>>>,
     <<"U+1F82", <<"U+1F0A", "U+0399">>>>, <<"U+1F83", <<"U+1F0B", "U+0399">>>>,
     <<"U+1F84", <<"U+1F0C", "U+0399">>>>, <<"U+1F85", <<"U+1F0D", "U+0399">>>>,
     <<"U+1F86", <<"U+1F0E", "U+0399">>>>, <<"U+1F87", <<"U+1F0F", "U+0399">>>>,
     <<"U+1F88", <<"U+1F08", "U+0399">>>>, <<"U+1F89", <<"U+1F09", "U+0399">>>>,
     <<"U+1F8A", <<"U+1F0A", "U+0399">>>>, <<"U+1F8B", <<"U+1F0B", "U+0399">>>>,
     <<"U+1F8C", <<"U+1F0C", "U+0399">>>>, <<"U+1F8D", <<"U+1F0D", "U+0399">>>>,
     <<"U+1F8E", <<"U+1F0E", "U+0399">>>>, <<"U+1F8F", <<"U+1F0F", "U+0399">>>>,
     <<"U+1F90", <<"U+1F28", "U+0399">>>>, <<"U+1F91", <<"U+1F29", "U+0399">>>>,
     <<"U+1F92", <<"U+1F2A", "U+0399">>>>, <<"U+1F93", <<"U+1F2B", "U+0399">>>>,
     <<"U+1F94", <<"U+1F2C", "U+0399">>>>, <<"U+1F95", <<"U+1F2D", "U+0399">>>>,
     <<"U+1F96", <<"U+1F2E", "U+0399">>>>, <<"U+1F97", <<"U+1F2F", "U+0399">>>>,
     <<"U+1F98", <<"U+1F28", "U+0399">>>>, <<"U+1F99", <<"U+1F29", "U+0399">>>>,
     <<"U+1F9A", <<"U+1F2A", "U+0399">>>>, <<"U+1F9B", <<"U+1F2B", "U+0399">>>>,
     <<"U+1F9C", <<"U+1F2C", "U+0399">>>>, <<"U+1F9D", <<"U+1F2D", "U+0399">>>>,
     <<"U+1F9E", <<"U+1F2E", "U+0399">>>>, <<"U+1F9F", <<"U+1F2F", "U+0399">>>>,
     <<"U+1FA0", <<"U+1F68", "U+0399">>>>, <<"U+1FA1", <<"U+1F69", "U+0399">>>>,
     <<"U+1FA2", <<"U+1F6A", "U+0399">>>>, <<"U+1FA3", <<"U+1F6B", "U+0399">>>>,
     <<"U+1FA4", <<"U+1F6C", "U+0399">>>>, <<"U+1FA5", <<"U+1F6D", "U+0399">>>>,
     <<"U+1FA6", <<"U+1F6E", "U+0399">>>>, <<"U+1FA7", <<"U+1F6F", "U+0399">>>>,
     <<"U+1FA8", <<"U+1F68", "U+0399">>>>, <<"U+1FA9", <<"U+1F69", "U+0399">>>>,
     <<"U+1FAA", <<"U+1F6A", "U+0399">>>>, <<"U+1FAB", <<"U+1F6B", "U+0399">>>>,
     <<"U+1FAC", <<"U+1F6C", "U+0399">>>>, <<"U+1FAD", <<"U+1F6D", "U+0399">>>>,
     <<"U+1FAE", <<"U+1F6E", "U+0399">>>>, <<"U+1FAF", <<"U+1F6F", "U+0399">>>>,
     <<"U+1FB0", <<"U+1FB8">>>>, <<"U+1FB1", <<"U+1FB9">>>>,
     <<"U+1FB2", <<"U+1FBA", "U+0399">>>>, <<"U+1FB3", <<"U+0391", "U+0399">>>>,
     <<"U+1FB4", <<"U+0386", "U+0399">>>>, <<"U+1FB6", <<"U+0391", "U+0342">>>>,
     <<"U+1FB7", <<"U+0391", "U+0342", "U+0399">>>>, <<"U+1FBC", <<"U+0391", "U+0399">>>>,
     <<"U+1FBE", <<"U+0399">>>>, <<"U+1FC2", <<"U+1FCA", "U+0399">>>>,
     <<"U+1FC3", <<"U+0397", "U+0399">>>>, <<"U+1FC4", <<"U+0389", "U+0399">>>>,
     <<"U+1FC6", <<"U+0397", "U+0342">>>>, <<"U+1FC7", <<"U+0397", "U+0342", "U+0399">>>>,
     <<"U+1FCC", <<"U+0397", "U+0399">>>>, <<"U+1FD0", <<"U+1FD8">>>>,
     <<"U+1FD1", <<"U+1FD9">>>>, <<"U+1FD2", <<"U+0399", "U+0308", "U+0300">>>>,
     <<"U+1FD3", <<"U+0399", "U+0308", "U+0301">>>>, <<"U+1FD6", <<"U+0399", "U+0342">>>>,
     <<"U+1FD7", <<"U+0399", "U+0308", "U+0342">>>>, <<"U+1FE0", <<"U+1FE8">>>>,
     <<"U+1FE1", <<"U+1FE9">>>>, <<"U+1FE2", <<"U+03A5", "U+0308", "U+0300">>>>,
     <<"U+1FE3", <<"U+03A5", "U+0308", "U+0301">>>>, <<"U+1FE4", <<"U+03A1", "U+0313">>>>,
     <<"U+1FE5", <<"U+1FEC">>>>, <<"U+1FE6", <<"U+03A5", "U+0342">>>>,
     <<"U+1FE7", <<"U+03A5", "U+0308", "U+0342">>>>, <<"U+1FF2", <<"U+1FFA", "U+0399">>>>,
     <<"U+1FF3", <<"U+03A9", "U+0399">>>>, <<"U+1FF4", <<"U+038F", "U+0399">>>>,
     <<"U+1FF6", <<"U+03A9", "U+0342">>>>, <<"U+1FF7", <<"U+03A9", "U+0342", "U+0399">>>>,
     <<"U+1FFC", <<"U+03A9", "U+0399">>>>, <<"U+214E", <<"U+2132">>>>,
     <<"U+2170", <<"U+2160">>>>, <<"U+2171", <<"U+2161">>>>, <<"U+2172", <<"U+2162">>>>,
     <<"U+2173", <<"U+2163">>>>, <<"U+2174", <<"U+2164">>>>, <<"U+2175", <<"U+2165">>>>,
     <<"U+2176", <<"U+2166">>>>, <<"U+2177", <<"U+2167">>>>, <<"U+2178", <<"U+2168">>>>,
     <<"U+2179", <<"U+2169">>>>, <<"U+217A", <<"U+216A">>>>, <<"U+217B", <<"U+216B">>>>,
     <<"U+217C", <<"U+216C">>>>, <<"U+217D", <<"U+216D">>>>, <<"U+217E", <<"U+216E">>>>,
     <<"U+217F", <<"U+216F">>>>, <<"U+2184", <<"U+2183">>>>, <<"U+24D0", <<"U+24B6">>>>,
     <<"U+24D1", <<"U+24B7">>>>, <<"U+24D2", <<"U+24B8">>>>, <<"U+24D3", <<"U+24B9">>>>,
     <<"U+24D4", <<"U+24BA">>>>, <<"U+24D5", <<"U+24BB">>>>, <<"U+24D6", <<"U+24BC">>>>,
     <<"U+24D7", <<"U+24BD">>>>, <<"U+24D8", <<"U+24BE">>>>, <<"U+24D9", <<"U+24BF">>>>,
     <<"U+24DA", <<"U+24C0">>>>, <<"U+24DB", <<"U+24C1">>>>, <<"U+24DC", <<"U+24C2">>>>,
     <<"U+24DD", <<"U+24C3">>>>, <<"U+24DE", <<"U+24C4">>>>, <<"U+24DF", <<"U+24C5">>>>,
     <<"U+24E0", <<"U+24C6">>>>, <<"U+24E1", <<"U+24C7">>>>, <<"U+24E2", <<"U+24C8">>>>,
     <<"U+24E3", <<"U+24C9">>>>, <<"U+24E4", <<"U+24CA">>>>, <<"U+24E5", <<"U+24CB">>>>,
     <<"U+24E6", <<"U+24CC">>>>, <<"U+24E7", <<"U+24CD">>>>, <<"U+24E8", <<"U+24CE">>>>,
     <<"U+24E9", <<"U+24CF">>>>, <<"U+2C30", <<"U+2C00">>>>, <<"U+2C31", <<"U+2C01">>>>,
     <<"U+2C32", <<"U+2C02">>>>, <<"U+2C33", <<"U+2C03">>>>, <<"U+2C34", <<"U+2C04">>>>,
     <<"U+2C35", <<"U+2C05">>>>, <<"U+2C36", <<"U+2C06">>>>, <<"U+2C37", <<"U+2C07">>>>,
     <<"U+2C38", <<"U+2C08">>>>, <<"U+2C39", <<"U+2C09">>>>, <<"U+2C3A", <<"U+2C0A">>>>,
     <<"U+2C3B", <<"U+2C0B">>>>, <<"U+2C3C", <<"U+2C0C">>>>, <<"U+2C3D", <<"U+2C0D">>>>,
     <<"U+2C3E", <<"U+2C0E">>>>, <<"U+2C3F", <<"U+2C0F">>>>, <<"U+2C40", <<"U+2C10">>>>,
     <<"U+2C41", <<"U+2C11">>>>, <<"U+2C42", <<"U+2C12">>>>, <<"U+2C43", <<"U+2C13">>>>,
     <<"U+2C44", <<"U+2C14">>>>, <<"U+2C45", <<"U+2C15">>>>, <<"U+2C46", <<"U+2C16">>>>,
     <<"U+2C47", <<"U+2C17">>>>, <<"U+2C48", <<"U+2C18">>>>, <<"U+2C49", <<"U+2C19">>>>,
     <<"U+2C4A", <<"U+2C1A">>>>, <<"U+2C4B", <<"U+2C1B">>>>, <<"U+2C4C", <<"U+2C1C">>>>,
     <<"U+2C4D", <<"U+2C1D">>>>, <<"U+2C4E", <<"U+2C1E">>>>, <<"U+2C4F", <<"U+2C1F">>>>,
     <<"U+2C50", <<"U+2C20">>>>, <<"U+2C51", <<"U+2C21">>>>, <<"U+2C52", <<"U+2C22">>>>,
     <<"U+2C53", <<"U+2C23">>>>, <<"U+2C54", <<"U+2C24">>>>, <<"U+2C55", <<"U+2C25">>>>,
     <<"U+2C56", <<"U+2C26">>>>, <<"U+2C57", <<"U+2C27">>>>, <<"U+2C58", <<"U+2C28">>>>,
     <<"U+2C59", <<"U+2C29">>>>, <<"U+2C5A", <<"U+2C2A">>>>, <<"U+2C5B", <<"U+2C2B">>>>,
     <<"U+2C5C", <<"U+2C2C">>>>, <<"U+2C5D", <<"U+2C2D">>>>, <<"U+2C5E", <<"U+2C2E">>>>,
     <<"U+2C5F", <<"U+2C2F">>>>, <<"U+2C61", <<"U+2C60">>>>, <<"U+2C65", <<"U+023A">>>>,
     <<"U+2C66", <<"U+023E">>>>, <<"U+2C68", <<"U+2C67">>>>, <<"U+2C6A", <<"U+2C69">>>>,
     <<"U+2C6C", <<"U+2C6B">>>>, <<"U+2C73", <<"U+2C72">>>>, <<"U+2C76", <<"U+2C75">>>>,
     <<"U+2C81", <<"U+2C80">>>>, <<"U+2C83", <<"U+2C82">>>>, <<"U+2C85", <<"U+2C84">>>>,
     <<"U+2C87", <<"U+2C86">>>>, <<"U+2C89", <<"U+2C88">>>>, <<"U+2C8B", <<"U+2C8A">>>>,
     <<"U+2C8D", <<"U+2C8C">>>>, <<"U+2C8F", <<"U+2C8E">>>>, <<"U+2C91", <<"U+2C90">>>>,
     <<"U+2C93", <<"U+2C92">>>>, <<"U+2C95", <<"U+2C94">>>>, <<"U+2C97", <<"U+2C96">>>>,
     <<"U+2C99", <<"U+2C98">>>>, <<"U+2C9B", <<"U+2C9A">>>>, <<"U+2C9D", <<"U+2C9C">>>>,
     <<"U+2C9F", <<"U+2C9E">>>>, <<"U+2CA1", <<"U+2CA0">>>>, <<"U+2CA3", <<"U+2CA2">>>>,
     <<"U+2CA5", <<"U+2CA4">>>>, <<"U+2CA7", <<"U+2CA6">>>>, <<"U+2CA9", <<"U+2CA8">>>>,
     <<"U+2CAB", <<"U+2CAA">>>>, <<"U+2CAD", <<"U+2CAC">>>>, <<"U+2CAF", <<"U+2CAE">>>>,
     <<"U+2CB1", <<"U+2CB0">>>>, <<"U+2CB3", <<"U+2CB2">>>>, <<"U+2CB5", <<"U+2CB4">>>>,
     <<"U+2CB7", <<"U+2CB6">>>>, <<"U+2CB9", <<"U+2CB8">>>>, <<"U+2CBB", <<"U+2CBA">>>>,
     <<"U+2CBD", <<"U+2CBC">>>>, <<"U+2CBF", <<"U+2CBE">>>>, <<"U+2CC1", <<"U+2CC0">>>>,
     <<"U+2CC3", <<"U+2CC2">>>>, <<"U+2CC5", <<"U+2CC4">>>>, <<"U+2CC7", <<"U+2CC6">>>>,
     <<"U+2CC9", <<"U+2CC8">>>>, <<"U+2CCB", <<"U+2CCA">>>>, <<"U+2CCD", <<"U+2CCC">>>>,
     <<"U+2CCF", <<"U+2CCE">>>>, <<"U+2CD1", <<"U+2CD0">>>>, <<"U+2CD3", <<"U+2CD2">>>>,
     <<"U+2CD5", <<"U+2CD4">>>>, <<"U+2CD7", <<"U+2CD6">>>>, <<"U+2CD9", <<"U+2CD8">>>>,
     <<"U+2CDB", <<"U+2CDA">>>>, <<"U+2CDD", <<"U+2CDC">>>>, <<"U+2CDF", <<"U+2CDE">>>>,
     <<"U+2CE1", <<"U+2CE0">>>>, <<"U+2CE3", <<"U+2CE2">>>>, <<"U+2CEC", <<"U+2CEB">>>>,
     <<"U+2CEE", <<"U+2CED">>>>, <<"U+2CF3", <<"U+2CF2">>>>, <<"U+2D00", <<"U+10A0">>>>,
     <<"U+2D01", <<"U+10A1">>>>, <<"U+2D02", <<"U+10A2">>>>, <<"U+2D03", <<"U+10A3">>>>,
     <<"U+2D04", <<"U+10A4">>>>, <<"U+2D05", <<"U+10A5">>>>, <<"U+2D06", <<"U+10A6">>>>,
     <<"U+2D07", <<"U+10A7">>>>, <<"U+2D08", <<"U+10A8">>>>, <<"U+2D09", <<"U+10A9">>>>,
     <<"U+2D0A", <<"U+10AA">>>>, <<"U+2D0B", <<"U+10AB">>>>, <<"U+2D0C", <<"U+10AC">>>>,
     <<"U+2D0D", <<"U+10AD">>>>, <<"U+2D0E", <<"U+10AE">>>>, <<"U+2D0F", <<"U+10AF">>>>,
     <<"U+2D10", <<"U+10B0">>>>, <<"U+2D11", <<"U+10B1">>>>, <<"U+2D12", <<"U+10B2">>>>,
     <<"U+2D13", <<"U+10B3">>>>, <<"U+2D14", <<"U+10B4">>>>, <<"U+2D15", <<"U+10B5">>>>,
     <<"U+2D16", <<"U+10B6">>>>, <<"U+2D17", <<"U+10B7">>>>, <<"U+2D18", <<"U+10B8">>>>,
     <<"U+2D19", <<"U+10B9">>>>, <<"U+2D1A", <<"U+10BA">>>>, <<"U+2D1B", <<"U+10BB">>>>,
     <<"U+2D1C", <<"U+10BC">>>>, <<"U+2D1D", <<"U+10BD">>>>, <<"U+2D1E", <<"U+10BE">>>>,
     <<"U+2D1F", <<"U+10BF">>>>, <<"U+2D20", <<"U+10C0">>>>, <<"U+2D21", <<"U+10C1">>>>,
     <<"U+2D22", <<"U+10C2">>>>, <<"U+2D23", <<"U+10C3">>>>, <<"U+2D24", <<"U+10C4">>>>,
     <<"U+2D25", <<"U+10C5">>>>, <<"U+2D27", <<"U+10C7">>>>, <<"U+2D2D", <<"U+10CD">>>>,
     <<"U+A641", <<"U+A640">>>>, <<"U+A643", <<"U+A642">>>>, <<"U+A645", <<"U+A644">>>>,
     <<"U+A647", <<"U+A646">>>>, <<"U+A649", <<"U+A648">>>>, <<"U+A64B", <<"U+A64A">>>>,
     <<"U+A64D", <<"U+A64C">>>>, <<"U+A64F", <<"U+A64E">>>>, <<"U+A651", <<"U+A650">>>>,
     <<"U+A653", <<"U+A652">>>>, <<"U+A655", <<"U+A654">>>>, <<"U+A657", <<"U+A656">>>>,
     <<"U+A659", <<"U+A658">>>>, <<"U+A65B", <<"U+A65A">>>>, <<"U+A65D", <<"U+A65C">>>>,
     <<"U+A65F", <<"U+A65E">>>>, <<"U+A661", <<"U+A660">>>>, <<"U+A663", <<"U+A662">>>>,
     <<"U+A665", <<"U+A664">>>>, <<"U+A667", <<"U+A666">>>>, <<"U+A669", <<"U+A668">>>>,
     <<"U+A66B", <<"U+A66A">>>>, <<"U+A66D", <<"U+A66C">>>>, <<"U+A681", <<"U+A680">>>>,
     <<"U+A683", <<"U+A682">>>>, <<"U+A685", <<"U+A684">>>>, <<"U+A687", <<"U+A686">>>>,
     <<"U+A689", <<"U+A688">>>>, <<"U+A68B", <<"U+A68A">>>>, <<"U+A68D", <<"U+A68C">>>>,
     <<"U+A68F", <<"U+A68E">>>>, <<"U+A691", <<"U+A690">>>>, <<"U+A693", <<"U+A692">>>>,
     <<"U+A695", <<"U+A694">>>>, <<"U+A697", <<"U+A696">>>>, <<"U+A699", <<"U+A698">>>>,
     <<"U+A69B", <<"U+A69A">>>>, <<"U+A723", <<"U+A722">>>>, <<"U+A725", <<"U+A724">>>>,
     <<"U+A727", <<"U+A726">>>>, <<"U+A729", <<"U+A728">>>>, <<"U+A72B", <<"U+A72A">>>>,
     <<"U+A72D", <<"U+A72C">>>>, <<"U+A72F", <<"U+A72E">>>>, <<"U+A733", <<"U+A732">>>>,
     <<"U+A735", <<"U+A734">>>>, <<"U+A737", <<"U+A736">>>>, <<"U+A739", <<"U+A738">>>>,
     <<"U+A73B", <<"U+A73A">>>>, <<"U+A73D", <<"U+A73C">>>>, <<"U+A73F", <<"U+A73E">>>>,
     <<"U+A741", <<"U+A740">>>>, <<"U+A743", <<"U+A742">>>>, <<"U+A745", <<"U+A744">>>>,
     <<"U+A747", <<"U+A746">>>>, <<"U+A749", <<"U+A748">>>>, <<"U+A74B", <<"U+A74A">>>>,
     <<"U+A74D", <<"U+A74C">>>>, <<"U+A74F", <<"U+A74E">>>>, <<"U+A751", <<"U+A750">>>>,
     <<"U+A753", <<"U+A752">>>>, <<"U+A755", <<"U+A754">>>>, <<"U+A757", <<"U+A756">>>>,
     <<"U+A759", <<"U+A758">>>>, <<"U+A75B", <<"U+A75A">>>>, <<"U+A75D", <<"U+A75C">>>>,
     <<"U+A75F", <<"U+A75E">>>>, <<"U+A761", <<"U+A760">>>>, <<"U+A763", <<"U+A762">>>>,
     <<"U+A765", <<"U+A764">>>>, <<"U+A767", <<"U+A766">>>>, <<"U+A769", <<"U+A768">>>>,
     <<"U+A76B", <<"U+A76A">>>>, <<"U+A76D", <<"U+A76C">>>>, <<"U+A76F", <<"U+A76E">>>>,
     <<"U+A77A", <<"U+A779">>>>, <<"U+A77C", <<"U+A77B">>>>, <<"U+A77F", <<"U+A77E">>>>,
     <<"U+A781", <<"U+A780">>>>, <<"U+A783", <<"U+A782">>>>, <<"U+A785", <<"U+A784">>>>,
     <<"U+A787", <<"U+A786">>>>, <<"U+A78C", <<"U+A78B">>>>, <<"U+A791", <<"U+A790">>>>,
     <<"U+A793", <<"U+A792">>>>, <<"U+A794", <<"U+A7C4">>>>, <<"U+A797", <<"U+A796">>>>,
     <<"U+A799", <<"U+A798">>>>, <<"U+A79B", <<"U+A79A">>>>, <<"U+A79D", <<"U+A79C">>>>,
     <<"U+A79F", <<"U+A79E">>>>, <<"U+A7A1", <<"U+A7A0">>>>, <<"U+A7A3", <<"U+A7A2">>>>,
     <<"U+A7A5", <<"U+A7A4">>>>, <<"U+A7A7", <<"U+A7A6">>>>, <<"U+A7A9", <<"U+A7A8">>>>,
     <<"U+A7B5", <<"U+A7B4">>>>, <<"U+A7B7", <<"U+A7B6">>>>, <<"U+A7B9", <<"U+A7B8">>>>,
     <<"U+A7BB", <<"U+A7BA">>>>, <<"U+A7BD", <<"U+A7BC">>>>, <<"U+A7BF", <<"U+A7BE">>>>,
     <<"U+A7C1", <<"U+A7C0">>>>, <<"U+A7C3", <<"U+A7C2">>>>, <<"U+A7C8", <<"U+A7C7">>>>,
     <<"U+A7CA", <<"U+A7C9">>>>, <<"U+A7CD", <<"U+A7CC">>>>, <<"U+A7CF", <<"U+A7CE">>>>,
     <<"U+A7D1", <<"U+A7D0">>>>, <<"U+A7D3", <<"U+A7D2">>>>, <<"U+A7D5", <<"U+A7D4">>>>,
     <<"U+A7D7", <<"U+A7D6">>>>, <<"U+A7D9", <<"U+A7D8">>>>, <<"U+A7DB", <<"U+A7DA">>>>,
     <<"U+A7F6", <<"U+A7F5">>>>, <<"U+AB53", <<"U+A7B3">>>>, <<"U+AB70", <<"U+13A0">>>>,
     <<"U+AB71", <<"U+13A1">>>>, <<"U+AB72", <<"U+13A2">>>>, <<"U+AB73", <<"U+13A3">>>>,
     <<"U+AB74", <<"U+13A4">>>>, <<"U+AB75", <<"U+13A5">>>>, <<"U+AB76", <<"U+13A6">>>>,
     <<"U+AB77", <<"U+13A7">>>>, <<"U+AB78", <<"U+13A8">>>>, <<"U+AB79", <<"U+13A9">>>>,
     <<"U+AB7A", <<"U+13AA">>>>, <<"U+AB7B", <<"U+13AB">>>>, <<"U+AB7C", <<"U+13AC">>>>,
     <<"U+AB7D", <<"U+13AD">>>>, <<"U+AB7E", <<"U+13AE">>>>, <<"U+AB7F", <<"U+13AF">>>>,
     <<"U+AB80", <<"U+13B0">>>>, <<"U+AB81", <<"U+13B1">>>>, <<"U+AB82", <<"U+13B2">>>>,
     <<"U+AB83", <<"U+13B3">>>>, <<"U+AB84", <<"U+13B4">>>>, <<"U+AB85", <<"U+13B5">>>>,
     <<"U+AB86", <<"U+13B6">>>>, <<"U+AB87", <<"U+13B7">>>>, <<"U+AB88", <<"U+13B8">>>>,
     <<"U+AB89", <<"U+13B9">>>>, <<"U+AB8A", <<"U+13BA">>>>, <<"U+AB8B", <<"U+13BB">>>>,
     <<"U+AB8C", <<"U+13BC">>>>, <<"U+AB8D", <<"U+13BD">>>>, <<"U+AB8E", <<"U+13BE">>>>,
     <<"U+AB8F", <<"U+13BF">>>>, <<"U+AB90", <<"U+13C0">>>>, <<"U+AB91", <<"U+13C1">>>>,
     <<"U+AB92", <<"U+13C2">>>>, <<"U+AB93", <<"U+13C3">>>>, <<"U+AB94", <<"U+13C4">>>>,
     <<"U+AB95", <<"U+13C5">>>>, <<"U+AB96", <<"U+13C6">>>>, <<"U+AB97", <<"U+13C7">>>>,
     <<"U+AB98", <<"U+13C8">>>>, <<"U+AB99", <<"U+13C9">>>>, <<"U+AB9A", <<"U+13CA">>>>,
     <<"U+AB9B", <<"U+13CB">>>>, <<"U+AB9C", <<"U+13CC">>>>, <<"U+AB9D", <<"U+13CD">>>>,
     <<"U+AB9E", <<"U+13CE">>>>, <<"U+AB9F", <<"U+13CF">>>>, <<"U+ABA0", <<"U+13D0">>>>,
     <<"U+ABA1", <<"U+13D1">>>>, <<"U+ABA2", <<"U+13D2">>>>, <<"U+ABA3", <<"U+13D3">>>>,
     <<"U+ABA4", <<"U+13D4">>>>, <<"U+ABA5", <<"U+13D5">>>>, <<"U+ABA6", <<"U+13D6">>>>,
     <<"U+ABA7", <<"U+13D7">>>>, <<"U+ABA8", <<"U+13D8">>>>, <<"U+ABA9", <<"U+13D9">>>>,
     <<"U+ABAA", <<"U+13DA">>>>, <<"U+ABAB", <<"U+13DB">>>>, <<"U+ABAC", <<"U+13DC">>>>,
     <<"U+ABAD", <<"U+13DD">>>>, <<"U+ABAE", <<"U+13DE">>>>, <<"U+ABAF", <<"U+13DF">>>>,
     <<"U+ABB0", <<"U+13E0">>>>, <<"U+ABB1", <<"U+13E1">>>>, <<"U+ABB2", <<"U+13E2">>>>,
     <<"U+ABB3", <<"U+13E3">>>>, <<"U+ABB4", <<"U+13E4">>>>, <<"U+ABB5", <<"U+13E5">>>>,
     <<"U+ABB6", <<"U+13E6">>>>, <<"U+ABB7", <<"U+13E7">>>>, <<"U+ABB8", <<"U+13E8">>>>,
     <<"U+ABB9", <<"U+13E9">>>>, <<"U+ABBA", <<"U+13EA">>>>, <<"U+ABBB", <<"U+13EB">>>>,
     <<"U+ABBC", <<"U+13EC">>>>, <<"U+ABBD", <<"U+13ED">>>>, <<"U+ABBE", <<"U+13EE">>>>,
     <<"U+ABBF", <<"U+13EF">>>>, <<"U+FB00", <<"F", "F">>>>, <<"U+FB01", <<"F", "I">>>>,
     <<"U+FB02", <<"F", "L">>>>, <<"U+FB03", <<"F", "F", "I">>>>,
     <<"U+FB04", <<"F", "F", "L">>>>, <<"U+FB05", <<"S", "T">>>>, <<"U+FB06", <<"S", "T">>>>,
     <<"U+FB13", <<"U+0544", "U+0546">>>>, <<"U+FB14", <<"U+0544", "U+0535">>>>,
     <<"U+FB15", <<"U+0544", "U+053B">>>>, <<"U+FB16", <<"U+054E", "U+0546">>>>,
     <<"U+FB17", <<"U+0544", "U+053D">>>>, <<"U+FF41", <<"U+FF21">>>>,
     <<"U+FF42", <<"U+FF22">>>>, <<"U+FF43", <<"U+FF23">>>>, <<"U+FF44", <<"U+FF24">>>>,
     <<"U+FF45", <<"U+FF25">>>>, <<"U+FF46", <<"U+FF26">>>>, <<"U+FF47", <<"U+FF27">>>>,
     <<"U+FF48", <<"U+FF28">>>>, <<"U+FF49", <<"U+FF29">>>>, <<"U+FF4A", <<"U+FF2A">>>>,
     <<"U+FF4B", <<"U+FF2B">>>>, <<"U+FF4C", <<"U+FF2C">>>>, <<"U+FF4D", <<"U+FF2D">>>>,
     <<"U+FF4E", <<"U+FF2E">>>>, <<"U+FF4F", <<"U+FF2F">>>>, <<"U+FF50", <<"U+FF30">>>>,
     <<"U+FF51", <<"U+FF31">>>>, <<"U+FF52", <<"U+FF32">>>>, <<"U+FF53", <<"U+FF33">>>>,
     <<"U+FF54", <<"U+FF34">>>>, <<"U+FF55", <<"U+FF35">>>>, <<"U+FF56", <<"U+FF36">>>>,
     <<"U+FF57", <<"U+FF37">>>>, <<"U+FF58", <<"U+FF38">>>>, <<"U+FF59", <<"U+FF39">>>>,
     <<"U+FF5A", <<"U+FF3A">>>>, <<"U+10428", <<"U+10400">>>>, <<"U+10429", <<"U+10401">>>>,
     <<"U+1042A", <<"U+10402">>>>, <<"U+1042B", <<"U+10403">>>>, <<"U+1042C", <<"U+10404">>>>,
     <<"U+1042D", <<"U+10405">>>>, <<"U+1042E", <<"U+10406">>>>, <<"U+1042F", <<"U+10407">>>>,
     <<"U+10430", <<"U+10408">>>>, <<"U+10431", <<"U+10409">>>>, <<"U+10432", <<"U+1040A">>>>,
     <<"U+10433", <<"U+1040B">>>>, <<"U+10434", <<"U+1040C">>>>, <<"U+10435", <<"U+1040D">>>>,
     <<"U+10436", <<"U+1040E">>>>, <<"U+10437", <<"U+1040F">>>>, <<"U+10438", <<"U+10410">>>>,
     <<"U+10439", <<"U+10411">>>>, <<"U+1043A", <<"U+10412">>>>, <<"U+1043B", <<"U+10413">>>>,
     <<"U+1043C", <<"U+10414">>>>, <<"U+1043D", <<"U+10415">>>>, <<"U+1043E", <<"U+10416">>>>,
     <<"U+1043F", <<"U+10417">>>>, <<"U+10440", <<"U+10418">>>>, <<"U+10441", <<"U+10419">>>>,
     <<"U+10442", <<"U+1041A">>>>, <<"U+10443", <<"U+1041B">>>>, <<"U+10444", <<"U+1041C">>>>,
     <<"U+10445", <<"U+1041D">>>>, <<"U+10446", <<"U+1041E">>>>, <<"U+10447", <<"U+1041F">>>>,
     <<"U+10448", <<"U+10420">>>>, <<"U+10449", <<"U+10421">>>>, <<"U+1044A", <<"U+10422">>>>,
     <<"U+1044B", <<"U+10423">>>>, <<"U+1044C", <<"U+10424">>>>, <<"U+1044D", <<"U+10425">>>>,
     <<"U+1044E", <<"U+10426">>>>, <<"U+1044F", <<"U+10427">>>>, <<"U+104D8", <<"U+104B0">>>>,
     <<"U+104D9", <<"U+104B1">>>>, <<"U+104DA", <<"U+104B2">>>>, <<"U+104DB", <<"U+104B3">>>>,
     <<"U+104DC", <<"U+104B4">>>>, <<"U+104DD", <<"U+104B5">>>>, <<"U+104DE", <<"U+104B6">>>>,
     <<"U+104DF", <<"U+104B7">>>>, <<"U+104E0", <<"U+104B8">>>>, <<"U+104E1", <<"U+104B9">>>>,
     <<"U+104E2", <<"U+104BA">>>>, <<"U+104E3", <<"U+104BB">>>>, <<"U+104E4", <<"U+104BC">>>>,
     <<"U+104E5", <<"U+104BD">>>>, <<"U+104E6", <<"U+104BE">>>>, <<"U+104E7", <<"U+104BF">>>>,
     <<"U+104E8", <<"U+104C0">>>>, <<"U+104E9", <<"U+104C1">>>>, <<"U+104EA", <<"U+104C2">>>>,
     <<"U+104EB", <<"U+104C3">>>>, <<"U+104EC", <<"U+104C4">>>>, <<"U+104ED", <<"U+104C5">>>>,
     <<"U+104EE", <<"U+104C6">>>>, <<"U+104EF", <<"U+104C7">>>>, <<"U+104F0", <<"U+104C8">>>>,
     <<"U+104F1", <<"U+104C9">>>>, <<"U+104F2", <<"U+104CA">>>>, <<"U+104F3", <<"U+104CB">>>>,
     <<"U+104F4", <<"U+104CC">>>>, <<"U+104F5", <<"U+104CD">>>>, <<"U+104F6", <<"U+104CE">>>>,
     <<"U+104F7", <<"U+104CF">>>>, <<"U+104F8", <<"U+104D0">>>>, <<"U+104F9", <<"U+104D1">>>>,
     <<"U+104FA", <<"U+104D2">>>>, <<"U+104FB", <<"U+104D3">>>>, <<"U+10597", <<"U+10570">>>>,
     <<"U+10598", <<"U+10571">>>>, <<"U+10599", <<"U+10572">>>>, <<"U+1059A", <<"U+10573">>>>,
     <<"U+1059B", <<"U+10574">>>>, <<"U+1059C", <<"U+10575">>>>, <<"U+1059D", <<"U+10576">>>>,
     <<"U+1059E", <<"U+10577">>>>, <<"U+1059F", <<"U+10578">>>>, <<"U+105A0", <<"U+10579">>>>,
     <<"U+105A1", <<"U+1057A">>>>, <<"U+105A3", <<"U+1057C">>>>, <<"U+105A4", <<"U+1057D">>>>,
     <<"U+105A5", <<"U+1057E">>>>, <<"U+105A6", <<"U+1057F">>>>, <<"U+105A7", <<"U+10580">>>>,
     <<"U+105A8", <<"U+10581">>>>, <<"U+105A9", <<"U+10582">>>>, <<"U+105AA", <<"U+10583">>>>,
     <<"U+105AB", <<"U+10584">>>>, <<"U+105AC", <<"U+10585">>>>, <<"U+105AD", <<"U+10586">>>>,
     <<"U+105AE", <<"U+10587">>>>, <<"U+105AF", <<"U+10588">>>>, <<"U+105B0", <<"U+10589">>>>,
     <<"U+105B1", <<"U+1058A">>>>, <<"U+105B3", <<"U+1058C">>>>, <<"U+105B4", <<"U+1058D">>>>,
     <<"U+105B5", <<"U+1058E">>>>, <<"U+105B6", <<"U+1058F">>>>, <<"U+105B7", <<"U+10590">>>>,
     <<"U+105B8", <<"U+10591">>>>, <<"U+105B9", <<"U+10592">>>>, <<"U+105BB", <<"U+10594">>>>,
     <<"U+105BC", <<"U+10595">>>>, <<"U+10CC0", <<"U+10C80">>>>, <<"U+10CC1", <<"U+10C81">>>>,
     <<"U+10CC2", <<"U+10C82">>>>, <<"U+10CC3", <<"U+10C83">>>>, <<"U+10CC4", <<"U+10C84">>>>,
     <<"U+10CC5", <<"U+10C85">>>>, <<"U+10CC6", <<"U+10C86">>>>, <<"U+10CC7", <<"U+10C87">>>>,
     <<"U+10CC8", <<"U+10C88">>>>, <<"U+10CC9", <<"U+10C89">>>>, <<"U+10CCA", <<"U+10C8A">>>>,
     <<"U+10CCB", <<"U+10C8B">>>>, <<"U+10CCC", <<"U+10C8C">>>>, <<"U+10CCD", <<"U+10C8D">>>>,
     <<"U+10CCE", <<"U+10C8E">>>>, <<"U+10CCF", <<"U+10C8F">>>>, <<"U+10CD0", <<"U+10C90">>>>,
     <<"U+10CD1", <<"U+10C91">>>>, <<"U+10CD2", <<"U+10C92">>>>, <<"U+10CD3", <<"U+10C93">>>>,
     <<"U+10CD4", <<"U+10C94">>>>, <<"U+10CD5", <<"U+10C95">>>>, <<"U+10CD6", <<"U+10C96">>>>,
     <<"U+10CD7", <<"U+10C97">>>>, <<"U+10CD8", <<"U+10C98">>>>, <<"U+10CD9", <<"U+10C99">>>>,
     <<"U+10CDA", <<"U+10C9A">>>>, <<"U+10CDB", <<"U+10C9B">>>>, <<"U+10CDC", <<"U+10C9C">>>>,
     <<"U+10CDD", <<"U+10C9D">>>>, <<"U+10CDE", <<"U+10C9E">>>>, <<"U+10CDF", <<"U+10C9F">>>>,
     <<"U+10CE0", <<"U+10CA0">>>>, <<"U+10CE1", <<"U+10CA1">>>>, <<"U+10CE2", <<"U+10CA2">>>>,
     <<"U+10CE3", <<"U+10CA3">>>>, <<"U+10CE4", <<"U+10CA4">>>>, <<"U+10CE5", <<"U+10CA5">>>>,
     <<"U+10CE6", <<"U+10CA6">>>>, <<"U+10CE7", <<"U+10CA7">>>>, <<"U+10CE8", <<"U+10CA8">>>>,
     <<"U+10CE9", <<"U+10CA9">>>>, <<"U+10CEA", <<"U+10CAA">>>>, <<"U+10CEB", <<"U+10CAB">>>>,
     <<"U+10CEC", <<"U+10CAC">>>>, <<"U+10CED", <<"U+10CAD">>>>, <<"U+10CEE", <<"U+10CAE">>>>,
     <<"U+10CEF", <<"U+10CAF">>>>, <<"U+10CF0", <<"U+10CB0">>>>, <<"U+10CF1", <<"U+10CB1">>>>,
     <<"U+10CF2", <<"U+10CB2">>>>, <<"U+10D70", <<"U+10D50">>>>, <<"U+10D71", <<"U+10D51">>>>,
     <<"U+10D72", <<"U+10D52">>>>, <<"U+10D73", <<"U+10D53">>>>, <<"U+10D74", <<"U+10D54">>>>,
     <<"U+10D75", <<"U+10D55">>>>, <<"U+10D76", <<"U+10D56">>>>, <<"U+10D77", <<"U+10D57">>>>,
     <<"U+10D78", <<"U+10D58">>>>, <<"U+10D79", <<"U+10D59">>>>, <<"U+10D7A", <<"U+10D5A">>>>,
     <<"U+10D7B", <<"U+10D5B">>>>, <<"U+10D7C", <<"U+10D5C">>>>, <<"U+10D7D", <<"U+10D5D">>>>,
     <<"U+10D7E", <<"U+10D5E">>>>, <<"U+10D7F", <<"U+10D5F">>>>, <<"U+10D80", <<"U+10D60">>>>,
     <<"U+10D81", <<"U+10D61">>>>, <<"U+10D82", <<"U+10D62">>>>, <<"U+10D83", <<"U+10D63">>>>,
     <<"U+10D84", <<"U+10D64">>>>, <<"U+10D85", <<"U+10D65">>>>, <<"U+118C0", <<"U+118A0">>>>,
     <<"U+118C1", <<"U+118A1">>>>, <<"U+118C2", <<"U+118A2">>>>, <<"U+118C3", <<"U+118A3">>>>,
     <<"U+118C4", <<"U+118A4">>>>, <<"U+118C5", <<"U+118A5">>>>, <<"U+118C6", <<"U+118A6">>>>,
     <<"U+118C7", <<"U+118A7">>>>, <<"U+118C8", <<"U+118A8">>>>, <<"U+118C9", <<"U+118A9">>>>,
     <<"U+118CA", <<"U+118AA">>>>, <<"U+118CB", <<"U+118AB">>>>, <<"U+118CC", <<"U+118AC">>>>,
     <<"U+118CD", <<"U+118AD">>>>, <<"U+118CE", <<"U+118AE">>>>, <<"U+118CF", <<"U+118AF">>>>,
     <<"U+118D0", <<"U+118B0">>>>, <<"U+118D1", <<"U+118B1">>>>, <<"U+118D2", <<"U+118B2">>>>,
     <<"U+118D3", <<"U+118B3">>>>, <<"U+118D4", <<"U+118B4">>>>, <<"U+118D5", <<"U+118B5">>>>,
     <<"U+118D6", <<"U+118B6">>>>, <<"U+118D7", <<"U+118B7">>>>, <<"U+118D8", <<"U+118B8">>>>,
     <<"U+118D9", <<"U+118B9">>>>, <<"U+118DA", <<"U+118BA">>>>, <<"U+118DB", <<"U+118BB">>>>,
     <<"U+118DC", <<"U+118BC">>>>, <<"U+118DD", <<"U+118BD">>>>, <<"U+118DE", <<"U+118BE">>>>,
     <<"U+118DF", <<"U+118BF">>>>, <<"U+16E60", <<"U+16E40">>>>, <<"U+16E61", <<"U+16E41">>>>,
     <<"U+16E62", <<"U+16E42">>>>, <<"U+16E63", <<"U+16E43">>>>, <<"U+16E64", <<"U+16E44">>>>,
     <<"U+16E65", <<"U+16E45">>>>, <<"U+16E66", <<"U+16E46">>>>, <<"U+16E67", <<"U+16E47">>>>,
     <<"U+16E68", <<"U+16E48">>>>, <<"U+16E69", <<"U+16E49">>>>, <<"U+16E6A", <<"U+16E4A">>>>,
     <<"U+16E6B", <<"U+16E4B">>>>, <<"U+16E6C", <<"U+16E4C">>>>, <<"U+16E6D", <<"U+16E4D">>>>,
     <<"U+16E6E", <<"U+16E4E">>>>, <<"U+16E6F", <<"U+16E4F">>>>, <<"U+16E70", <<"U+16E50">>>>,
     <<"U+16E71", <<"U+16E51">>>>, <<"U+16E72", <<"U+16E52">>>>, <<"U+16E73", <<"U+16E53">>>>,
     <<"U+16E74", <<"U+16E54">>>>, <<"U+16E75", <<"U+16E55">>>>, <<"U+16E76", <<"U+16E56">>>>,
     <<"U+16E77", <<"U+16E57">>>>, <<"U+16E78", <<"U+16E58">>>>, <<"U+16E79", <<"U+16E59">>>>,
     <<"U+16E7A", <<"U+16E5A">>>>, <<"U+16E7B", <<"U+16E5B">>>>, <<"U+16E7C", <<"U+16E5C">>>>,
     <<"U+16E7D", <<"U+16E5D">>>>, <<"U+16E7E", <<"U+16E5E">>>>, <<"U+16E7F", <<"U+16E5F">>>>,
     <<"U+16EBB", <<"U+16EA0">>>>, <<"U+16EBC", <<"U+16EA1">>>>, <<"U+16EBD", <<"U+16EA2">>>>,
     <<"U+16EBE", <<"U+16EA3">>>>, <<"U+16EBF", <<"U+16EA4">>>>, <<"U+16EC0", <<"U+16EA5">>>>,
     <<"U+16EC1", <<"U+16EA6">>>>, <<"U+16EC2", <<"U+16EA7">>>>, <<"U+16EC3", <<"U+16EA8">>>>,
     <<"U+16EC4", <<"U+16EA9">>>>, <<"U+16EC5", <<"U+16EAA">>>>, <<"U+16EC6", <<"U+16EAB">>>>,
     <<"U+16EC7", <<"U+16EAC">>>>, <<"U+16EC8", <<"U+16EAD">>>>, <<"U+16EC9", <<"U+16EAE">>>>,
     <<"U+16ECA", <<"U+16EAF">>>>, <<"U+16ECB", <<"U+16EB0">>>>, <<"U+16ECC", <<"U+16EB1">>>>,
     <<"U+16ECD", <<"U+16EB2">>>>, <<"U+16ECE", <<"U+16EB3">>>>, <<"U+16ECF", <<"U+16EB4">>>>,
     <<"U+16ED0", <<"U+16EB5">>>>, <<"U+16ED1", <<"U+16EB6">>>>, <<"U+16ED2", <<"U+16EB7">>>>,
     <<"U+16ED3", <<"U+16EB8">>>>, <<"U+1E922", <<"U+1E900">>>>, <<"U+1E923", <<"U+1E901">>>>,
     <<"U+1E924", <<"U+1E902">>>>, <<"U+1E925", <<"U+1E903">>>>, <<"U+1E926", <<"U+1E904">>>>,
     <<"U+1E927", <<"U+1E905">>>>, <<"U+1E928", <<"U+1E906">>>>, <<"U+1E929", <<"U+1E907">>>>,
     <<"U+1E92A", <<"U+1E908">>>>, <<"U+1E92B", <<"U+1E909">>>>, <<"U+1E92C", <<"U+1E90A">>>>,
     <<"U+1E92D", <<"U+1E90B">>>>, <<"U+1E92E", <<"U+1E90C">>>>, <<"U+1E92F", <<"U+1E90D">>>>,
     <<"U+1E930", <<"U+1E90E">>>>, <<"U+1E931", <<"U+1E90F">>>>, <<"U+1E932", <<"U+1E910">>>>,
     <<"U+1E933", <<"U+1E911">>>>, <<"U+1E934", <<"U+1E912">>>>, <<"U+1E935", <<"U+1E913">>>>,
     <<"U+1E936", <<"U+1E914">>>>, <<"U+1E937", <<"U+1E915">>>>, <<"U+1E938", <<"U+1E916">>>>,
     <<"U+1E939", <<"U+1E917">>>>, <<"U+1E93A", <<"U+1E918">>>>, <<"U+1E93B", <<"U+1E919">>>>,
     <<"U+1E93C", <<"U+1E91A">>>>, <<"U+1E93D", <<"U+1E91B">>>>, <<"U+1E93E", <<"U+1E91C">>>>,
     <<"U+1E93F", <<"U+1E91D">>>>, <<"U+1E940", <<"U+1E91E">>>>, <<"U+1E941", <<"U+1E91F">>>>,
     <<"U+1E942", <<"U+1E920">>>>, <<"U+1E943", <<"U+1E921">>>>
    }

UppercaseOf ==
    [c \in {p[1] : p \in UppercaseMapping} |->
        (CHOOSE p \in UppercaseMapping : p[1] = c)[2]]

\* char::to_uppercase: the upper-case characters of c, in order.
UpperChar(c) == IF c \in DOMAIN UppercaseOf THEN UppercaseOf[c] ELSE <<c>>

\* str::to_uppercase: the upper-case characters of every character of s.
ToUppercase(s) == Flatten([i \in 1..Len(s) |-> UpperChar(s[i])])

(***************************************************************************)
(* Python: http_calls(), db_operations(), async_operations(), imports().   *)
(***************************************************************************)
py_http_library(client_kind) ==
    CASE client_kind.tag = "Requests" -> Variant("Requests")
      [] client_kind.tag = "Httpx"    -> Variant("Httpx")
      [] client_kind.tag = "Aiohttp"  -> Variant("Aiohttp")
      [] client_kind.tag = "Other"    -> Other(client_kind.name)

py_http_method(method_name) ==
    LET other == ToUppercase(method_name)
    IN CASE other = <<"G", "E", "T">>    -> Variant("Get")
         [] other = <<"P", "O", "S", "T">>   -> Variant("Post")
         [] other = <<"P", "U", "T">>    -> Variant("Put")
         [] other = <<"P", "A", "T", "C", "H">>  -> Variant("Patch")
         [] other = <<"D", "E", "L", "E", "T", "E">> -> Variant("Delete")
         [] OTHER             -> Other(other)

py_http_call(s, call) ==
    [library            |-> py_http_library(call.client_kind),
     method             |-> py_http_method(call.method_name),
     url                |-> None,
     has_timeout        |-> call.has_timeout,
     timeout_value      |-> None,
     retry_mechanism    |-> None,
     call_text          |-> call.call_text,
     location           |-> CommonLocation(s.file_id,
                                           call.location.range.start_line + 1,
                                           call.location.range.start_col + 1,
                                           call.start_byte, call.end_byte),
     enclosing_function |-> call.function_name,
     in_async_context   |-> call.in_async_function,
     in_loop            |-> FALSE,
     start_byte         |-> call.start_byte,
     end_byte           |-> call.end_byte]

py_http_calls(s) ==
    LET Conv(call) == py_http_call(s, call)
    IN Map(s.http_calls, Conv)

py_db_library(orm_kind) ==
    CASE orm_kind = "SqlAlchemy" -> Variant("SqlAlchemy")
      [] orm_kind = "Django"     -> Variant("DjangoOrm")
      [] orm_kind = "Tortoise"   -> Variant("TortoiseOrm")
      [] orm_kind = "SqlModel"   -> Other(<<"S", "Q", "L", "M", "o", "d", "e", "l">>)
      [] orm_kind = "Peewee"     -> Variant("Peewee")
      [] orm_kind = "Unknown"    -> Other(<<"U", "n", "k", "n", "o", "w", "n">>)

py_db_operation_type(query_type) ==
    CASE query_type = "Select"             -> "Select"
      [] query_type = "Insert"             -> "Insert"
      [] query_type = "Update"             -> "Update"
      [] query_type = "Delete"             -> "Delete"
      [] query_type = "RelationshipAccess" -> "RelationshipAccess"
      [] query_type = "Unknown"            -> "Unknown"

py_db_operation(s, query) ==
    [library            |-> py_db_library(query.orm_kind),
     operation_type     |-> py_db_operation_type(query.query_type),
     has_timeout        |-> FALSE,
     timeout_value      |-> None,
     in_transaction     |-> FALSE,
     eager_loading      |-> IF query.has_eager_loading THEN Some(Other(<<"d", "e", "t", "e", "c", "t", "e", "d">>))
                            ELSE None,
     in_loop            |-> query.in_loop,
     in_iteration       |-> query.in_comprehension,
     model_name         |-> query.model_name,
     relationship_field |-> query.loop_variable,
     operation_text     |-> IF IsSome(query.query_text) THEN Unwrap(query.query_text)
                            ELSE <<>>,
     location           |-> CommonLocation(s.file_id,
                                           query.location.range.start_line + 1,
                                           query.location.range.start_col + 1,
                                           query.start_byte, query.end_byte),
     enclosing_function |-> None,
     start_byte         |-> query.start_byte,
     end_byte           |-> query.end_byte]

py_db_operations(s) ==
    LET Conv(query) == py_db_operation(s, query)
    IN Map(s.orm_queries, Conv)

py_async_operation_type(t) ==
    CASE t = "TaskSpawn"        -> "TaskSpawn"
      [] t = "Await"            -> "TaskAwait"
      [] t = "TaskGather"       -> "TaskGather"
      [] t = "ChannelSend"      -> "ChannelSend"
      [] t = "ChannelReceive"   -> "ChannelReceive"
      [] t = "LockAcquire"      -> "LockAcquire"
      [] t = "LockRelease"      -> "LockRelease"
      [] t = "SemaphoreAcquire" -> "SemaphoreAcquire"
      [] t = "Sleep"            -> "Sleep"
      [] t = "Timeout"          -> "Timeout"
      [] t = "Select"           -> "SelectRace"
      [] t = "AsyncFor"         -> "TaskAwait"
      [] t = "Unknown"          -> "Unknown"

convert_python_async_op(py_op, file_id) ==
    [runtime               |-> Variant("Asyncio"),
     operation_type        |-> py_async_operation_type(py_op.operation_type),
     has_error_handling    |-> py_op.has_error_handling,
     error_handling        |-> IF py_op.has_error_handling THEN Some(Variant("TryCatch"))
                               ELSE None,
     has_timeout           |-> py_op.has_timeout,
     timeout_value         |-> py_op.timeout_value,
     has_cancellation      |-> py_op.has_cancellation,
     cancellation_handling |-> IF py_op.has_cancellation
                               THEN Some(Variant("CancellationToken")) ELSE None,
     is_bounded            |-> py_op.is_bounded,
     bound_limit           |-> py_op.bound_limit,
     has_cleanup           |-> FALSE,
     operation_text        |-> py_op.operation_text,
     location              |-> CommonLocation(file_id,
                                              py_op.location.range.start_line + 1,
                                              py_op.location.range.start_col + 1,
                                              py_op.start_byte, py_op.end_byte),
     enclosing_function    |-> py_op.enclosing_function,
     start_byte            |-> py_op.start_byte,
     end_byte              |-> py_op.end_byte]

py_async_operations(s) ==
    LET Conv(py_op) == convert_python_async_op(py_op, s.file_id)
    IN Map(s.async_operations, Conv)

\* ImportedItem::new(name): a name without alias.
ImportedItem(name) == [name |-> name, alias |-> None]

\* ImportRecord with the parser's row and column written as they are.
ImportRecord_zero_based(module_path, style, source, items, module_alias, is_type_only, file_id, location) ==
    [module_path  |-> module_path,
     style        |-> style,
     source       |-> source,
     items        |-> items,
     module_alias |-> module_alias,
     raw_text     |-> <<>>,
     is_type_only |-> is_type_only,
     is_dynamic   |-> FALSE,
     location     |-> CommonLocation(file_id, location.range.start_line,
                                     location.range.start_col, 0, 0)]

ImportRecord(module_path, style, source, items, module_alias, is_type_only, file_id, location) ==
    [module_path  |-> module_path,
     style        |-> style,
     source       |-> source,
     items        |-> items,
     module_alias |-> module_alias,
     raw_text     |-> <<>>,
     is_type_only |-> is_type_only,
     is_dynamic   |-> FALSE,
     location     |-> CommonLocation(file_id, location.range.start_line + 1,
                                     location.range.start_col + 1, 0, 0)]

convert_python_import(py_import, file_id) ==
    LET style  == CASE py_import.style = "Import"     -> "Module"
                    [] py_import.style = "FromImport" -> "Named"
        source == CASE py_import.category = "Stdlib"     -> "StandardLib"
                    [] py_import.category = "ThirdParty" -> "External"
                    [] py_import.category = "Local"      -> "Local"
    IN Some(ImportRecord(py_import.module, style, source,
                         Map(py_import.names, ImportedItem), py_import.alias,
                         FALSE, file_id, py_import.location))

py_imports(s) ==
    LET Conv(imp) == convert_python_import(imp, s.file_id)
    IN FilterMap(s.imports, Conv)

\* str::starts_with and str::contains.
StartsWith(s, p) == Len(s) >= Len(p) /\ SubSeq(s, 1, Len(p)) = p
EndsWith(s, p) == Len(s) >= Len(p) /\ SubSeq(s, Len(s) - Len(p) + 1, Len(s)) = p
Contains(s, p) == \E i \in 0..(Len(s) - Len(p)) : SubSeq(s, i + 1, i + Len(p)) = p

(***************************************************************************)
(* Go: http_calls(), db_operations(), async_operations(), imports().       *)
(***************************************************************************)
go_http_library(client_kind) ==
    CASE client_kind.tag = "NetHttp"  -> Variant("NetHttp")
      [] client_kind.tag = "Resty"    -> Other(<<"R", "e", "s", "t", "y">>)
      [] client_kind.tag = "Fasthttp" -> Other(<<"F", "a", "s", "t", "h", "t", "t", "p">>)
      [] client_kind.tag = "Fiber"    -> Other(<<"F", "i", "b", "e", "r">>)
      [] client_kind.tag = "Other"    -> Other(client_kind.name)

go_http_method(method_name) ==
    LET other == ToUppercase(method_name)
    IN CASE other = <<"G", "E", "T">>    -> Variant("Get")
         [] other = <<"P", "O", "S", "T">>   -> Variant("Post")
         [] other = <<"P", "U", "T">>    -> Variant("Put")
         [] other = <<"P", "A", "T", "C", "H">>  -> Variant("Patch")
         [] other = <<"D", "E", "L", "E", "T", "E">> -> Variant("Delete")
         [] other = <<"D", "O">>     -> Other(<<"D", "O">>)
         [] OTHER             -> Other(other)

go_http_call(s, call) ==
    [library            |-> go_http_library(call.client_kind),
     method             |-> go_http_method(call.method_name),
     url                |-> None,
     has_timeout        |-> call.has_timeout,
     timeout_value      |-> None,
     retry_mechanism    |-> None,
     call_text          |-> call.call_text,
     location           |-> CommonLocation(s.file_id,
                                           call.location.range.start_line + 1,
                                           call.location.range.start_col + 1,
                                           call.start_byte, call.end_byte),
     enclosing_function |-> call.function_name,
     in_async_context   |-> FALSE,
     in_loop            |-> FALSE,
     start_byte         |-> call.start_byte,
     end_byte           |-> call.end_byte]

go_http_calls(s) ==
    LET Conv(call) == go_http_call(s, call)
    IN Map(s.http_calls, Conv)

go_db_library(library) ==
    CASE library = <<"d", "a", "t", "a", "b", "a", "s", "e", "/", "s", "q", "l">> -> Variant("DatabaseSql")
      [] library = <<"G", "O", "R", "M">>         -> Variant("Gorm")
      [] library = <<"s", "q", "l", "x">>         -> Variant("Sqlx")
      [] library = <<"s", "q", "l", "c">>         -> Variant("Sqlc")
      [] OTHER                     -> Other(library)

go_db_operation_type(operation_type) ==
    CASE operation_type = <<"S", "E", "L", "E", "C", "T">>   -> "Select"
      [] operation_type = <<"I", "N", "S", "E", "R", "T">>   -> "Insert"
      [] operation_type = <<"U", "P", "D", "A", "T", "E">>   -> "Update"
      [] operation_type = <<"D", "E", "L", "E", "T", "E">>   -> "Delete"
      [] operation_type = <<"C", "O", "N", "N", "E", "C", "T">>  -> "Connect"
      [] operation_type = <<"B", "E", "G", "I", "N">>    -> "TransactionBegin"
      [] operation_type = <<"C", "O", "M", "M", "I", "T">>   -> "TransactionCommit"
      [] operation_type = <<"R", "O", "L", "L", "B", "A", "C", "K">> -> "TransactionRollback"
      [] operation_type = <<"R", "A", "W", "_", "S", "Q", "L">>  -> "RawSql"
      [] OTHER                        -> "Unknown"

\* DbOperationFrom with the location's byte range left at (0, 0), as in an
\* import.
DbOperationFrom_zero_bytes(db_op, library, operation_type) ==
    [library            |-> library,
     operation_type     |-> operation_type,
     has_timeout        |-> db_op.has_timeout,
     timeout_value      |-> db_op.timeout_value,
     in_transaction     |-> db_op.in_transaction,
     eager_loading      |-> db_op.eager_loading,
     in_loop            |-> db_op.in_loop,
     in_iteration       |-> db_op.in_iteration,
     model_name         |-> db_op.model_name,
     relationship_field |-> db_op.relationship_field,
     operation_text     |-> db_op.operation_text,
     location           |-> CommonLocation(db_op.location.file_id, db_op.location.line,
                                           db_op.location.column, 0, 0),
     enclosing_function |-> db_op.enclosing_function,
     start_byte         |-> db_op.start_byte,
     end_byte           |-> db_op.end_byte]

\* The DbOperation that the Go, Rust and TypeScript mappers build: every
\* field but library and operation_type is copied from the extractor record.
DbOperationFrom(db_op, library, operation_type) ==
    [library            |-> library,
     operation_type     |-> operation_type,
     has_timeout        |-> db_op.has_timeout,
     timeout_value      |-> db_op.timeout_value,
     in_transaction     |-> db_op.in_transaction,
     eager_loading      |-> db_op.eager_loading,
     in_loop            |-> db_op.in_loop,
     in_iteration       |-> db_op.in_iteration,
     model_name         |-> db_op.model_name,
     relationship_field |-> db_op.relationship_field,
     operation_text     |-> db_op.operation_text,
     location           |-> CommonLocation(db_op.location.file_id, db_op.location.line,
                                           db_op.location.column,
                                           db_op.start_byte, db_op.end_byte),
     enclosing_function |-> db_op.enclosing_function,
     start_byte         |-> db_op.start_byte,
     end_byte           |-> db_op.end_byte]

go_db_operation(db_op) ==
    DbOperationFrom(db_op, go_db_library(db_op.library),
                    go_db_operation_type(db_op.operation_type))

go_db_operations(s) == Map(s.db_operations, go_db_operation)

\* The AsyncOperation of a Go construct; the fields that are constant in
\* GoFileSemantics::async_operations are filled in here.
GoAsyncOperation(s, operation_type, has_error_handling, error_handling, has_cancellation, cancellation_handling, has_cleanup, text, location, start_byte, end_byte, function_name) ==
    [runtime               |-> Variant("Goroutine"),
     operation_type        |-> operation_type,
     has_error_handling    |-> has_error_handling,
     error_handling        |-> error_handling,
     has_timeout           |-> FALSE,
     timeout_value         |-> None,
     has_cancellation      |-> has_cancellation,
     cancellation_handling |-> cancellation_handling,
     is_bounded            |-> FALSE,
     bound_limit           |-> None,
     has_cleanup           |-> has_cleanup,
     operation_text        |-> text,
     location              |-> CommonLocation(s.file_id, location.range.start_line + 1,
                                              location.range.start_col + 1,
                                              start_byte, end_byte),
     enclosing_function    |-> function_name,
     start_byte            |-> start_byte,
     end_byte              |-> end_byte]

go_goroutine_op(s, g) ==
    <<GoAsyncOperation(s, "TaskSpawn",
        g.has_recover,
        IF g.has_recover THEN Some(Other(<<"r", "e", "c", "o", "v", "e", "r">>)) ELSE None,
        g.has_context_param \/ g.has_done_channel,
        IF g.has_done_channel THEN Some(Variant("ChannelClose")) ELSE None,
        FALSE, g.text, g.location, g.start_byte, g.end_byte, g.function_name)>>

go_channel_operation_type(kind) ==
    CASE kind = "Send"    -> "ChannelSend"
      [] kind = "Receive" -> "ChannelReceive"
      [] kind = "Close"   -> "Unknown"

\* A channel operation is pushed only when its type is not Unknown.
go_channel_op(s, ch) ==
    LET operation_type == go_channel_operation_type(ch.kind)
    IN IF operation_type # "Unknown"
       THEN <<GoAsyncOperation(s, operation_type, FALSE, None, FALSE, None, FALSE,
                               ch.text, ch.location, ch.start_byte, ch.end_byte,
                               ch.function_name)>>
       ELSE <<>>

go_select_op(s, select_stmt) ==
    <<GoAsyncOperation(s, "SelectRace", FALSE, None,
        select_stmt.is_cancellation_pattern,
        IF select_stmt.is_cancellation_pattern THEN Some(Variant("ChannelClose"))
        ELSE None,
        FALSE, select_stmt.text, select_stmt.location,
        select_stmt.start_byte, select_stmt.end_byte, select_stmt.function_name)>>

go_mutex_op(s, mutex) ==
    <<GoAsyncOperation(s,
        IF mutex.operation_type = <<"L", "o", "c", "k">> \/ mutex.operation_type = <<"R", "L", "o", "c", "k">>
        THEN "LockAcquire" ELSE "LockRelease",
        mutex.uses_defer_unlock,
        IF mutex.uses_defer_unlock THEN Some(Other(<<"d", "e", "f", "e", "r">>)) ELSE None,
        FALSE, None,
        mutex.uses_defer_unlock, mutex.text, mutex.location,
        mutex.lock_start_byte, mutex.lock_end_byte, mutex.function_name)>>

go_defer_op(s, defer_stmt) ==
    <<GoAsyncOperation(s, "Unknown",
        defer_stmt.is_resource_cleanup, None,
        defer_stmt.is_resource_cleanup,
        IF defer_stmt.is_resource_cleanup THEN Some(Other(<<"d", "e", "f", "e", "r", "_", "c", "l", "e", "a", "n", "u", "p">>)) ELSE None,
        TRUE, defer_stmt.text, defer_stmt.location,
        defer_stmt.start_byte, defer_stmt.end_byte, defer_stmt.function_name)>>

go_async_operations(s) ==
    LET G(g) == go_goroutine_op(s, g)
        C(ch) == go_channel_op(s, ch)
        S(select_stmt) == go_select_op(s, select_stmt)
        M(mutex) == go_mutex_op(s, mutex)
        D(defer_stmt) == go_defer_op(s, defer_stmt)
    IN Flatten(Map(s.goroutines, G)) \o Flatten(Map(s.channel_ops, C))
         \o Flatten(Map(s.select_statements, S)) \o Flatten(Map(s.mutex_operations, M))
         \o Flatten(Map(s.defers, D))

convert_go_import(go_import, file_id) ==
    LET source ==
          IF \/ StartsWith(go_import.path, <<"g", "i", "t", "h", "u", "b", ".", "c", "o", "m">>)
             \/ StartsWith(go_import.path, <<"g", "o", "l", "a", "n", "g", ".", "o", "r", "g">>)
             \/ Contains(go_import.path, <<".">>)
          THEN "External"
          ELSE IF StartsWith(go_import.path, <<".">>) \/ StartsWith(go_import.path, <<"/">>)
               THEN "Local"
               ELSE "StandardLib"
    IN Some(ImportRecord(go_import.path, "Module", source, <<>>, go_import.alias,
                         FALSE, file_id, go_import.location))

go_imports(s) ==
    LET Conv(imp) == convert_go_import(imp, s.file_id)
    IN FilterMap(s.imports, Conv)

(***************************************************************************)
(* Rust: http_calls(), db_operations(), async_operations(), imports().     *)
(***************************************************************************)
\* RustFileSemantics already stores common HttpCall records.
rust_http_calls(s) == s.http_calls

\* rust_db_library with one label for every library it does not know.
rust_db_library_unknown_label(library) ==
    CASE library = <<"D", "i", "e", "s", "e", "l">>         -> Variant("Diesel")
      [] library = <<"S", "e", "a", "O", "R", "M">>         -> Variant("SeaOrm")
      [] library = <<"s", "q", "l", "x">>           -> Variant("SqlxRust")
      [] library = <<"t", "o", "k", "i", "o", "-", "p", "o", "s", "t", "g", "r", "e", "s">> -> Variant("TokioPostgres")
      [] OTHER                       -> Other(<<"U", "n", "k", "n", "o", "w", "n">>)

rust_db_library(library) ==
    CASE library = <<"D", "i", "e", "s", "e", "l">>         -> Variant("Diesel")
      [] library = <<"S", "e", "a", "O", "R", "M">>         -> Variant("SeaOrm")
      [] library = <<"s", "q", "l", "x">>           -> Variant("SqlxRust")
      [] library = <<"t", "o", "k", "i", "o", "-", "p", "o", "s", "t", "g", "r", "e", "s">> -> Variant("TokioPostgres")
      [] OTHER                       -> Other(library)

rust_db_operation_type(operation_type) ==
    CASE operation_type = <<"S", "E", "L", "E", "C", "T">>  -> "Select"
      [] operation_type = <<"I", "N", "S", "E", "R", "T">>  -> "Insert"
      [] operation_type = <<"U", "P", "D", "A", "T", "E">>  -> "Update"
      [] operation_type = <<"D", "E", "L", "E", "T", "E">>  -> "Delete"
      [] operation_type = <<"R", "A", "W", "_", "S", "Q", "L">> -> "RawSql"
      [] OTHER                       -> "Unknown"

rust_db_operation(db_op) ==
    DbOperationFrom(db_op, rust_db_library(db_op.library),
                    rust_db_operation_type(db_op.operation_type))

rust_db_operations(s) == Map(s.db_operations, rust_db_operation)

rust_async_operation(s, spawn) ==
    [runtime               |-> IF s.async_info.uses_tokio THEN Variant("Tokio")
                               ELSE IF s.async_info.uses_async_std THEN Variant("AsyncStd")
                               ELSE Other(<<"u", "n", "k", "n", "o", "w", "n">>),
     operation_type        |-> "TaskSpawn",
     has_error_handling    |-> spawn.has_error_handling,
     error_handling        |-> None,
     has_timeout           |-> FALSE,
     timeout_value         |-> None,
     has_cancellation      |-> spawn.handle_captured,
     cancellation_handling |-> None,
     is_bounded            |-> FALSE,
     bound_limit           |-> None,
     has_cleanup           |-> FALSE,
     operation_text        |-> spawn.spawned_expr,
     location              |-> CommonLocation(s.file_id,
                                              spawn.location.range.start_line + 1,
                                              spawn.location.range.start_col + 1,
                                              spawn.start_byte, spawn.end_byte),
     enclosing_function    |-> spawn.function_name,
     start_byte            |-> spawn.start_byte,
     end_byte              |-> spawn.end_byte]

rust_async_operations(s) ==
    LET Conv(spawn) == rust_async_operation(s, spawn)
    IN Map(s.async_info.spawn_calls, Conv)

convert_rust_use(rust_use, file_id) ==
    LET source ==
          IF StartsWith(rust_use.path, <<"s", "t", "d", ":", ":">>) \/ StartsWith(rust_use.path, <<"c", "o", "r", "e", ":", ":">>)
          THEN "StandardLib"
          ELSE IF \/ StartsWith(rust_use.path, <<"c", "r", "a", "t", "e", ":", ":">>)
                  \/ StartsWith(rust_use.path, <<"s", "u", "p", "e", "r", ":", ":">>)
                  \/ StartsWith(rust_use.path, <<"s", "e", "l", "f", ":", ":">>)
               THEN "Local"
               ELSE "External"
        style ==
          IF rust_use.is_glob THEN "Star"
          ELSE IF Len(rust_use.items) = 0 THEN "Module"
          ELSE "Named"
    IN Some(ImportRecord(rust_use.path, style, source,
                         Map(rust_use.items, ImportedItem), rust_use.alias,
                         FALSE, file_id, rust_use.location))

rust_imports(s) ==
    LET Conv(imp) == convert_rust_use(imp, s.file_id)
    IN FilterMap(s.uses, Conv)

(***************************************************************************)
(* TypeScript: http_calls(), db_operations(), async_operations(),          *)
(* imports().                                                              *)
(***************************************************************************)
ts_http_library(client_kind) ==
    CASE client_kind = "Fetch"      -> Variant("Fetch")
      [] client_kind = "Axios"      -> Variant("Axios")
      [] client_kind = "Got"        -> Variant("Got")
      [] client_kind = "NodeHttp"   -> Other(<<"n", "o", "d", "e", "-", "h", "t", "t", "p">>)
      [] client_kind = "NodeFetch"  -> Other(<<"n", "o", "d", "e", "-", "f", "e", "t", "c", "h">>)
      [] client_kind = "Undici"     -> Other(<<"u", "n", "d", "i", "c", "i">>)
      [] client_kind = "Ky"         -> Other(<<"k", "y">>)
      [] client_kind = "Superagent" -> Other(<<"s", "u", "p", "e", "r", "a", "g", "e", "n", "t">>)
      [] client_kind = "Unknown"    -> Other(<<"u", "n", "k", "n", "o", "w", "n">>)

\* ts_http_method without the arm for fetch.
ts_http_method_fetch_as_other(method) ==
    LET other == ToUppercase(method)
    IN CASE other = <<"G", "E", "T">>     -> Variant("Get")
         [] other = <<"P", "O", "S", "T">>    -> Variant("Post")
         [] other = <<"P", "U", "T">>     -> Variant("Put")
         [] other = <<"P", "A", "T", "C", "H">>   -> Variant("Patch")
         [] other = <<"D", "E", "L", "E", "T", "E">>  -> Variant("Delete")
         [] OTHER              -> Other(other)

ts_http_method(method) ==
    LET other == ToUppercase(method)
    IN CASE other = <<"G", "E", "T">>     -> Variant("Get")
         [] other = <<"P", "O", "S", "T">>    -> Variant("Post")
         [] other = <<"P", "U", "T">>     -> Variant("Put")
         [] other = <<"P", "A", "T", "C", "H">>   -> Variant("Patch")
         [] other = <<"D", "E", "L", "E", "T", "E">>  -> Variant("Delete")
         [] other = <<"F", "E", "T", "C", "H">>   -> Variant("Get")
         [] other = <<"R", "E", "Q", "U", "E", "S", "T">> -> Other(<<"R", "E", "Q", "U", "E", "S", "T">>)
         [] OTHER              -> Other(other)

ts_http_call(s, call) ==
    [library            |-> ts_http_library(call.client_kind),
     method             |-> ts_http_method(call.method),
     url                |-> call.url,
     has_timeout        |-> call.has_timeout,
     timeout_value      |-> None,
     retry_mechanism    |-> None,
     call_text          |-> <<>>,
     location           |-> CommonLocation(s.file_id,
                                           call.location.range.start_line + 1,
                                           call.location.range.start_col + 1,
                                           call.start_byte, call.end_byte),
     enclosing_function |-> call.function_name,
     in_async_context   |-> call.in_async_context,
     in_loop            |-> FALSE,
     start_byte         |-> call.start_byte,
     end_byte           |-> call.end_byte]

ts_http_calls(s) ==
    LET Conv(call) == ts_http_call(s, call)
    IN Map(s.http_calls, Conv)

ts_db_library(library) ==
    CASE library = <<"P", "r", "i", "s", "m", "a">>      -> Variant("Prisma")
      [] library = <<"T", "y", "p", "e", "O", "R", "M">>     -> Variant("TypeOrm")
      [] library = <<"K", "n", "e", "x">>        -> Variant("Knex")
      [] library = <<"S", "e", "q", "u", "e", "l", "i", "z", "e">>   -> Variant("Sequelize")
      [] library = <<"D", "r", "i", "z", "z", "l", "e", " ", "O", "R", "M">> -> Variant("DrizzleOrm")
      [] OTHER                    -> Other(library)

ts_db_operation_type(operation_type) ==
    CASE operation_type = <<"S", "E", "L", "E", "C", "T">>  -> "Select"
      [] operation_type = <<"I", "N", "S", "E", "R", "T">>  -> "Insert"
      [] operation_type = <<"U", "P", "D", "A", "T", "E">>  -> "Update"
      [] operation_type = <<"D", "E", "L", "E", "T", "E">>  -> "Delete"
      [] operation_type = <<"C", "O", "N", "N", "E", "C", "T">> -> "Connect"
      [] operation_type = <<"R", "A", "W", "_", "S", "Q", "L">> -> "RawSql"
      [] OTHER                       -> "Unknown"

ts_db_operation(db_op) ==
    DbOperationFrom(db_op, ts_db_library(db_op.library),
                    ts_db_operation_type(db_op.operation_type))

ts_db_operations(s) == Map(s.db_operations, ts_db_operation)

ts_async_operation_type(t) ==
    CASE t = "PromiseConstructor" -> "TaskSpawn"
      [] t = "Await"              -> "TaskAwait"
      [] t = "PromiseCombinator"  -> "TaskGather"
      [] t = "PromiseChain"       -> "TaskGather"
      [] t = "Timeout"            -> "Sleep"
      [] t = "Cancellation"       -> "TaskSpawn"
      [] t = "AsyncFunction"      -> "TaskSpawn"
      [] t = "AsyncArrow"         -> "TaskSpawn"
      [] t = "Unknown"            -> "Unknown"

convert_ts_async_op(ts_op, file_id) ==
    [runtime               |-> Variant("PromiseNative"),
     operation_type        |-> ts_async_operation_type(ts_op.operation_type),
     has_error_handling    |-> ts_op.has_error_handling,
     error_handling        |-> IF ts_op.has_error_handling THEN Some(Variant("TryCatch"))
                               ELSE None,
     has_timeout           |-> ts_op.has_timeout,
     timeout_value         |-> ts_op.timeout_value,
     has_cancellation      |-> ts_op.has_cancellation,
     cancellation_handling |-> IF ts_op.has_cancellation
                               THEN Some(Variant("CancellationToken")) ELSE None,
     is_bounded            |-> FALSE,
     bound_limit           |-> None,
     has_cleanup           |-> FALSE,
     operation_text        |-> ts_op.operation_text,
     location              |-> CommonLocation(file_id,
                                              ts_op.location.range.start_line + 1,
                                              ts_op.location.range.start_col + 1,
                                              ts_op.start_byte, ts_op.end_byte),
     enclosing_function    |-> ts_op.enclosing_function,
     start_byte            |-> ts_op.start_byte,
     end_byte              |-> ts_op.end_byte]

ts_async_operations(s) ==
    LET Conv(ts_op) == convert_ts_async_op(ts_op, s.file_id)
    IN Map(s.async_operations, Conv)

convert_ts_import(ts_import, file_id) ==
    LET source == IF StartsWith(ts_import.module, <<".">>) THEN "Local" ELSE "External"
        style ==
          IF IsSome(ts_import.default_import) /\ Len(ts_import.named_imports) = 0
          THEN "Default"
          ELSE IF IsSome(ts_import.namespace_import) THEN "Star"
          ELSE IF Len(ts_import.named_imports) # 0 THEN "Named"
          ELSE "SideEffect"
    IN Some(ImportRecord(ts_import.module, style, source,
                         Map(ts_import.named_imports, ImportedItem),
                         IF IsSome(ts_import.default_import) THEN ts_import.default_import
                         ELSE ts_import.namespace_import,
                         ts_import.is_type_only, file_id, ts_import.location))

ts_imports(s) ==
    LET Conv(imp) == convert_ts_import(imp, s.file_id)
    IN FilterMap(s.imports, Conv)

(***************************************************************************)
(* The CommonSemantics capability, dispatched on the implementing type.    *)
(***************************************************************************)
http_calls(s) ==
    CASE s.lang = "Python"     -> py_http_calls(s)
      [] s.lang = "Go"         -> go_http_calls(s)
      [] s.lang = "Rust"       -> rust_http_calls(s)
      [] s.lang = "Typescript" -> ts_http_calls(s)

db_operations(s) ==
    CASE s.lang = "Python"     -> py_db_operations(s)
      [] s.lang = "Go"         -> go_db_operations(s)
      [] s.lang = "Rust"       -> rust_db_operations(s)
      [] s.lang = "Typescript" -> ts_db_operations(s)

async_operations(s) ==
    CASE s.lang = "Python"     -> py_async_operations(s)
      [] s.lang = "Go"         -> go_async_operations(s)
      [] s.lang = "Rust"       -> rust_async_operations(s)
      [] s.lang = "Typescript" -> ts_async_operations(s)

imports(s) ==
    CASE s.lang = "Python"     -> py_imports(s)
      [] s.lang = "Go"         -> go_imports(s)
      [] s.lang = "Rust"       -> rust_imports(s)
      [] s.lang = "Typescript" -> ts_imports(s)

(***************************************************************************)
(* Call sites.                                                             *)
(* PyCallSite and GoCallSite carry start_byte/end_byte themselves; the     *)
(* Rust and TypeScript converters read them from function_call.location.   *)
(***************************************************************************)
SplitAt(callee_expr, idx, line, column) ==
    [callee      |-> IF idx > 0 THEN SubSeq(callee_expr, idx + 1, Len(callee_expr))
                     ELSE callee_expr,
     callee_expr |-> callee_expr,
     receiver    |-> IF idx > 0 THEN Some(SubSeq(callee_expr, 1, idx - 1)) ELSE None,
     line        |-> line,
     column      |-> column]

convert_py_call_site(call) ==
    SplitAt(call.function_call.callee_expr, RFind(call.function_call.callee_expr, "."),
            call.function_call.location.line, call.function_call.location.column)

convert_go_call_site(call) ==
    SplitAt(call.function_call.callee_expr, RFind(call.function_call.callee_expr, "."),
            call.function_call.location.line, call.function_call.location.column)

\* Mutant: splits at the first '.' instead of the last.
convert_rust_call_site_first_dot(call) ==
    SplitAt(call.function_call.callee_expr, Find(call.function_call.callee_expr, "."),
            call.function_call.location.line, call.function_call.location.column)

convert_rust_call_site(call) ==
    SplitAt(call.function_call.callee_expr, RFind(call.function_call.callee_expr, "."),
            call.function_call.location.line, call.function_call.location.column)

convert_ts_call_site(call) ==
    SplitAt(call.function_call.callee_expr, RFind(call.function_call.callee_expr, "."),
            call.function_call.location.line, call.function_call.location.column)

(***************************************************************************)
(* The byte-range filter of each converter.                                *)
(***************************************************************************)
\* Mutant: the function's last byte is excluded.
py_call_in_function_exclusive_end(call, py_func) ==
    call.start_byte >= py_func.start_byte /\ call.end_byte < py_func.end_byte

py_call_in_function(call, py_func) ==
    call.start_byte >= py_func.start_byte /\ call.end_byte <= py_func.end_byte

go_call_in_function(call, go_func) ==
    call.start_byte >= go_func.start_byte /\ call.end_byte <= go_func.end_byte

\* Mutant: the end of the call site is not compared.
go_call_in_method_start_only(call, go_method) ==
    call.start_byte >= go_method.start_byte

go_call_in_method(call, go_method) ==
    call.start_byte >= go_method.start_byte /\ call.end_byte <= go_method.end_byte

rust_call_in_function(call, rust_func) ==
    /\ call.function_call.location.start_byte >= rust_func.start_byte
    /\ call.function_call.location.end_byte <= rust_func.end_byte

\* Mutant: both boundaries are excluded.
ts_call_in_function_exclusive(call, ts_func) ==
    /\ call.function_call.location.start_byte > ts_func.start_byte
    /\ call.function_call.location.end_byte < ts_func.end_byte

ts_call_in_function(call, ts_func) ==
    /\ call.function_call.location.start_byte >= ts_func.start_byte
    /\ call.function_call.location.end_byte <= ts_func.end_byte

ts_call_in_method(call, method) ==
    /\ call.function_call.location.start_byte >= method.start_byte
    /\ call.function_call.location.end_byte <= method.end_byte

FunctionDef(name, kind, visibility, is_async, class_name, calls, f) ==
    [name       |-> name,
     kind       |-> kind,
     visibility |-> visibility,
     is_async   |-> is_async,
     class_name |-> class_name,
     calls      |-> calls,
     location   |-> [line       |-> f.location.range.start_line + 1,
                     column     |-> f.location.range.start_col + 1,
                     start_byte |-> f.start_byte,
                     end_byte   |-> f.end_byte],
     start_byte |-> f.start_byte,
     end_byte   |-> f.end_byte]

(***************************************************************************)
(* Python: functions().                                                    *)
(***************************************************************************)
\* Mutant: every name with a leading underscore is private, dunder or not.
convert_python_function_dunder_private(py_func, all_calls) ==
    LET Inside(call) == py_call_in_function(call, py_func)
        calls == Map(SelectSeq(all_calls, Inside), convert_py_call_site)
        visibility == IF StartsWith(py_func.name, <<"_">>) THEN "Private" ELSE "Public"
    IN Some(FunctionDef(py_func.name,
                        IF py_func.is_method THEN "Method" ELSE "Function",
                        visibility, py_func.is_async,
                        py_func.class_name, calls, py_func))

convert_python_function(py_func, all_calls) ==
    LET Inside(call) == py_call_in_function(call, py_func)
        calls == Map(SelectSeq(all_calls, Inside), convert_py_call_site)
        visibility ==
            IF StartsWith(py_func.name, <<"_", "_">>) /\ EndsWith(py_func.name, <<"_", "_">>)
            THEN "Public"
            ELSE IF StartsWith(py_func.name, <<"_">>) THEN "Private"
            ELSE "Public"
    IN Some(FunctionDef(py_func.name,
                        IF py_func.is_method THEN "Method" ELSE "Function",
                        visibility, py_func.is_async,
                        py_func.class_name, calls, py_func))

py_functions(s) ==
    LET Conv(func) == convert_python_function(func, s.calls)
    IN FilterMap(s.functions, Conv)

(***************************************************************************)
(* Go: functions() = free functions, then methods.                         *)
(***************************************************************************)
\* name.chars().next().map(|c| c.is_uppercase()).unwrap_or(false)
go_visibility(name) ==
    IF Len(name) > 0 /\ name[1] \in UppercaseLetters THEN "Public" ELSE "Package"

convert_go_function(go_func, all_calls) ==
    LET Inside(call) == go_call_in_function(call, go_func)
        calls == Map(SelectSeq(all_calls, Inside), convert_go_call_site)
    IN Some(FunctionDef(go_func.name, "Function", go_visibility(go_func.name), FALSE,
                        None, calls, go_func))

convert_go_method(go_method, all_calls) ==
    LET Inside(call) == go_call_in_method(call, go_method)
        calls == Map(SelectSeq(all_calls, Inside), convert_go_call_site)
    IN Some(FunctionDef(go_method.name, "Method", go_visibility(go_method.name), FALSE,
                        Some(go_method.receiver_type), calls, go_method))

go_functions(s) ==
    LET ConvF(func) == convert_go_function(func, s.calls)
        ConvM(method) == convert_go_method(method, s.calls)
    IN FilterMap(s.functions, ConvF) \o FilterMap(s.methods, ConvM)

(***************************************************************************)
(* Rust: functions() = free functions, then the methods of every impl      *)
(* block, all through convert_rust_function.                               *)
(***************************************************************************)
convert_rust_function(rust_func, all_calls) ==
    LET Inside(call) == rust_call_in_function(call, rust_func)
        calls == Map(SelectSeq(all_calls, Inside), convert_rust_call_site)
        visibility ==
            CASE rust_func.visibility = "Pub"      -> "Public"
              [] rust_func.visibility = "PubCrate" -> "Package"
              [] rust_func.visibility = "PubSuper" -> "Protected"
              [] rust_func.visibility = "PubIn"    -> "Package"
              [] rust_func.visibility = "Private"  -> "Private"
    IN Some(FunctionDef(rust_func.name, "Function", visibility, rust_func.is_async,
                        None, calls, rust_func))

rust_functions(s) ==
    LET Conv(func) == convert_rust_function(func, s.calls)
        OfImpl(impl_block) == FilterMap(impl_block.methods, Conv)
    IN FilterMap(s.functions, Conv) \o Flatten(Map(s.impls, OfImpl))

(***************************************************************************)
(* TypeScript: functions() = functions, then the methods of every class.   *)
(***************************************************************************)
convert_ts_function(ts_func, all_calls) ==
    LET Inside(call) == ts_call_in_function(call, ts_func)
        calls == Map(SelectSeq(all_calls, Inside), convert_ts_call_site)
    IN Some(FunctionDef(ts_func.name,
                        IF ts_func.is_generator THEN "Generator" ELSE "Function",
                        IF ts_func.is_exported THEN "Public" ELSE "Private",
                        ts_func.is_async, None, calls, ts_func))

convert_ts_method(method, all_calls, class_name) ==
    LET Inside(call) == ts_call_in_method(call, method)
        calls == Map(SelectSeq(all_calls, Inside), convert_ts_call_site)
        visibility ==
            IF method.is_private THEN "Private"
            ELSE IF method.is_protected THEN "Protected"
            ELSE "Public"
    IN Some(FunctionDef(method.name, "Method", visibility, method.is_async,
                        Some(class_name), calls, method))

ts_functions(s) ==
    LET ConvF(func) == convert_ts_function(func, s.calls)
        OfClass(class) ==
            LET ConvM(method) == convert_ts_method(method, s.calls, class.name)
            IN FilterMap(class.methods, ConvM)
    IN FilterMap(s.functions, ConvF) \o Flatten(Map(s.classes, OfClass))

\* Mutant: the methods of a Go file come before its free functions.
functions_methods_first(s) ==
    CASE s.lang = "Python"     -> py_functions(s)
      [] s.lang = "Go"         ->
           LET ConvF(func) == convert_go_function(func, s.calls)
               ConvM(method) == convert_go_method(method, s.calls)
           IN FilterMap(s.methods, ConvM) \o FilterMap(s.functions, ConvF)
      [] s.lang = "Rust"       -> rust_functions(s)
      [] s.lang = "Typescript" -> ts_functions(s)

\* CommonSemantics::functions, dispatched on the implementing type.
functions(s) ==
    CASE s.lang = "Python"     -> py_functions(s)
      [] s.lang = "Go"         -> go_functions(s)
      [] s.lang = "Rust"       -> rust_functions(s)
      [] s.lang = "Typescript" -> ts_functions(s)

(***************************************************************************)
(* The files handed to functions(): up to MaxSites functions, methods and  *)
(* call sites with byte ranges in 0..MaxByte.  The first `split` defs are  *)
(* free functions, the others are methods of the type Server.             *)
(***************************************************************************)
Ranges == {r \in [start_byte : 0..MaxByte, end_byte : 0..MaxByte] : r.start_byte <= r.end_byte}

\* A function definition spans at least one byte (the tests of
\* common_impl.rs assert end_byte > start_byte); a call site may be empty.
FnRanges == {r \in Ranges : r.start_byte < r.end_byte}

FnNames == << <<"f">>, <<"g">>, <<"h">>, <<"k">>, <<"m">> >>
CallExprs == << <<"a">>, <<"o", ".", "m">>, <<"o", ".", "n", ".", "m">>, <<"b">>, <<"c">> >>
Server == <<"S", "e", "r", "v", "e", "r">>

\* The i-th call site of the file's call list.
CallSite(lang, i, r, callee_expr) ==
    IF lang \in {"Python", "Go"}
    THEN [start_byte    |-> r.start_byte,
          end_byte      |-> r.end_byte,
          function_call |-> [callee_expr |-> callee_expr,
                             location    |-> [line |-> i, column |-> r.start_byte + 1]]]
    ELSE [function_call |-> [callee_expr |-> callee_expr,
                             location    |-> [line       |-> i,
                                              column     |-> r.start_byte + 1,
                                              start_byte |-> r.start_byte,
                                              end_byte   |-> r.end_byte]]]

\* The attributes the extractors record besides the name and the byte range:
\* is_async (Python, Rust, TypeScript), visibility (Rust), is_exported and
\* is_generator (TypeScript functions), is_private and is_protected
\* (TypeScript methods).
PlainAttrs ==
    [is_async |-> FALSE, visibility |-> "Private", is_exported |-> FALSE,
     is_generator |-> FALSE, is_private |-> FALSE, is_protected |-> FALSE]

\* The i-th function of the file starts on parser row i - 1, at the column
\* of its first byte.
FnRecordWith(lang, i, r, is_method, name, a) ==
    LET location == [range |-> [start_line |-> i - 1, start_col |-> r.start_byte]]
    IN CASE lang = "Python" ->
              [location |-> location, name |-> name,
               start_byte |-> r.start_byte, end_byte |-> r.end_byte,
               is_method |-> is_method, is_async |-> a.is_async,
               class_name |-> IF is_method THEN Some(Server) ELSE None]
         [] lang = "Go" /\ is_method ->
              [location |-> location, name |-> name,
               start_byte |-> r.start_byte, end_byte |-> r.end_byte,
               receiver_type |-> Server]
         [] lang = "Go" /\ ~is_method ->
              [location |-> location, name |-> name,
               start_byte |-> r.start_byte, end_byte |-> r.end_byte]
         [] lang = "Rust" ->
              [location |-> location, name |-> name,
               start_byte |-> r.start_byte, end_byte |-> r.end_byte,
               visibility |-> a.visibility, is_async |-> a.is_async]
         [] lang = "Typescript" /\ ~is_method ->
              [location |-> location, name |-> name,
               start_byte |-> r.start_byte, end_byte |-> r.end_byte,
               is_async |-> a.is_async, is_exported |-> a.is_exported,
               is_generator |-> a.is_generator]
         [] lang = "Typescript" /\ is_method ->
              [location |-> location, name |-> name,
               start_byte |-> r.start_byte, end_byte |-> r.end_byte,
               is_async |-> a.is_async, is_private |-> a.is_private,
               is_protected |-> a.is_protected]

FnRecord(lang, i, r, is_method) == FnRecordWith(lang, i, r, is_method, FnNames[i], PlainAttrs)

\* The semantics of a file in which the extractors found nothing.  The record
\* has the fields of all four per-language types; a mapper reads its own.
EmptySem(lang) ==
    [lang              |-> lang,
     file_id           |-> 1,
     http_calls        |-> <<>>,
     orm_queries       |-> <<>>,
     db_operations     |-> <<>>,
     async_operations  |-> <<>>,
     goroutines        |-> <<>>,
     channel_ops       |-> <<>>,
     select_statements |-> <<>>,
     mutex_operations  |-> <<>>,
     defers            |-> <<>>,
     async_info        |-> [spawn_calls |-> <<>>, uses_tokio |-> FALSE,
                            uses_async_std |-> FALSE],
     imports           |-> <<>>,
     uses              |-> <<>>,
     functions         |-> <<>>,
     methods           |-> <<>>,
     impls             |-> <<>>,
     classes           |-> <<>>,
     calls             |-> <<>>]

MkSem(lang, defs, split, sites, exprs) ==
    LET recs  == [i \in 1..Len(defs) |-> FnRecord(lang, i, defs[i], i > split)]
        frees == SubSeq(recs, 1, split)
        meths == SubSeq(recs, split + 1, Len(recs))
    IN [EmptySem(lang) EXCEPT
          !.functions = IF lang = "Python" THEN recs ELSE frees,
          !.methods   = IF lang = "Go" THEN meths ELSE <<>>,
          !.impls     = IF lang = "Rust" /\ meths # <<>> THEN <<[methods |-> meths]>> ELSE <<>>,
          !.classes   = IF lang = "Typescript" /\ meths # <<>>
                        THEN <<[name |-> Server, methods |-> meths]>> ELSE <<>>,
          !.calls     = [i \in 1..Len(sites) |-> CallSite(lang, i, sites[i], exprs[i])]]

NoOut == [op |-> "none", val |-> <<>>]

Init ==
    /\ \E lang \in Langs, defs \in SeqsUpTo(FnRanges, MaxSites) :
         \E split \in 0..Len(defs), sites \in SeqsUpTo(Ranges, MaxSites - Len(defs)) :
            sem = MkSem(lang, defs, split, sites, CallExprs)
    /\ out = NoOut
    /\ file = <<>>

\* A caller asks the file's semantics for its normalized functions.
Functions ==
    /\ out.op = "none"
    /\ sem.lang \in Langs
    /\ out' = [op |-> "functions", val |-> functions(sem)]
    /\ UNCHANGED <<sem, file>>

Next == Functions

Spec == Init /\ [][Next]_vars

(***************************************************************************)
(* Callee splitting: one function holding one call site, whose callee      *)
(* expression is any string of at most MaxLen characters over ExprChars.   *)
(***************************************************************************)
ExprChars == {"a", "b", "."}

InitSplit ==
    /\ \E lang \in Langs, e \in SeqsUpTo(ExprChars, MaxLen), split \in 0..1 :
          sem = MkSem(lang, <<[start_byte |-> 0, end_byte |-> 1]>>, split,
                      <<[start_byte |-> 0, end_byte |-> 1]>>, <<e>>)
    /\ out = NoOut
    /\ file = <<>>

SpecSplit == InitSplit /\ [][Next]_vars

(***************************************************************************)
(* Extractor records of the four categories http_calls, db_operations,     *)
(* async_operations and imports.  A record is a shape (the fields the      *)
(* mappers branch on) joined with the position of the record in the file.  *)
(***************************************************************************)
MaxRecs == 2        \* extractor records of one category in a file

\* The i-th record of a list sits on parser row i - 1 and spans one byte.
AstPos(i) ==
    [location   |-> [range |-> [start_line |-> i - 1, start_col |-> 0]],
     start_byte |-> i - 1,
     end_byte   |-> i]

\* Go, Rust and TypeScript DB extractors store a Location, whose line and
\* column are 1-based: the record on parser row i - 1, column 0, holds line
\* i and column 1.
DbPos(file_id, i) ==
    [location   |-> [file_id |-> file_id, line |-> i, column |-> 1],
     start_byte |-> i - 1,
     end_byte   |-> i]

Categories == {"imports", "http_calls", "db_operations", "async_operations"}

\* The shapes an extractor of the language produces for a category: the
\* values of the fields the mappers branch on or copy.
Shapes(lang, cat) ==
    LET
        \* po<U+017F>t: the long s becomes S in upper case.
        MethodNames == {<<"g", "e", "t">>, <<"P", "o", "s", "t">>, <<"D", "E", "L", "E", "T", "E">>, <<"o", "p", "t", "i", "o", "n", "s">>, <<"p", "o", "U+017F", "t">>}

        PyHttpShapes ==
            {[client_kind |-> k, method_name |-> mn, has_timeout |-> FALSE,
              call_text |-> <<"c", ".", "m", "(", "u", ")">>, function_name |-> None, in_async_function |-> a] :
                k \in {Variant("Requests"), Variant("Httpx"), Variant("Aiohttp"), Other(<<"u", "r", "l", "l", "i", "b", "3">>)},
                mn \in {<<"g", "e", "t">>, <<"o", "p", "t", "i", "o", "n", "s">>}, a \in BOOLEAN}
              \cup
            {[client_kind |-> Variant("Requests"), method_name |-> mn, has_timeout |-> TRUE,
              call_text |-> <<"c", ".", "m", "(", "u", ")">>, function_name |-> Some(<<"f">>), in_async_function |-> FALSE] :
                mn \in MethodNames}

        GoHttpShapes ==
            {[client_kind |-> k, method_name |-> mn, has_timeout |-> FALSE,
              call_text |-> <<"c", ".", "M", "(", "u", ")">>, function_name |-> None] :
                k \in {Variant("NetHttp"), Variant("Resty"), Variant("Fasthttp"),
                       Variant("Fiber"), Other(<<"g", "r", "e", "q", "u", "e", "s", "t", "s">>)},
                mn \in {<<"G", "e", "t">>, <<"D", "o">>}}
              \cup
            {[client_kind |-> Variant("NetHttp"), method_name |-> mn, has_timeout |-> TRUE,
              call_text |-> <<"c", ".", "M", "(", "u", ")">>, function_name |-> Some(<<"f">>)] :
                mn \in MethodNames}

        \* RustFileSemantics.http_calls holds HttpCall records built by the Rust
        \* analysis; their Location is stored, as that of DbPos is.
        RustHttpShapes ==
            {[library |-> l, method |-> mth, url |-> None, has_timeout |-> t,
              timeout_value |-> None, retry_mechanism |-> None, call_text |-> <<"c", ".", "m", "(", "u", ")">>,
              enclosing_function |-> None, in_async_context |-> FALSE, in_loop |-> FALSE] :
                l \in {Variant("Reqwest"), Other(<<"u", "r", "e", "q">>)},
                mth \in {Variant("Get"), Other(<<"H", "E", "A", "D">>)}, t \in BOOLEAN}

        TsHttpShapes ==
            {[client_kind |-> k, method |-> mn, url |-> None, has_timeout |-> FALSE,
              function_name |-> None, in_async_context |-> FALSE] :
                k \in {"Fetch", "Axios", "Got", "NodeHttp", "NodeFetch", "Undici", "Ky",
                       "Superagent", "Unknown"},
                mn \in {<<"f", "e", "t", "c", "h">>}}
              \cup
            {[client_kind |-> "Axios", method |-> mn, url |-> Some(<<"u">>), has_timeout |-> TRUE,
              function_name |-> Some(<<"f">>), in_async_context |-> TRUE] :
                mn \in MethodNames \cup {<<"r", "e", "q", "u", "e", "s", "t">>}}

        PyDbShapes ==
            {[orm_kind |-> k, query_type |-> "Select", has_eager_loading |-> FALSE,
              in_loop |-> FALSE, in_comprehension |-> FALSE, model_name |-> None,
              loop_variable |-> None, query_text |-> None] :
                k \in {"SqlAlchemy", "Django", "Tortoise", "SqlModel", "Peewee", "Unknown"}}
              \cup
            {[orm_kind |-> "SqlAlchemy", query_type |-> q, has_eager_loading |-> TRUE,
              in_loop |-> TRUE, in_comprehension |-> FALSE, model_name |-> Some(<<"U", "s", "e", "r">>),
              loop_variable |-> Some(<<"u">>), query_text |-> Some(<<"q", ".", "a", "l", "l", "(", ")">>)] :
                q \in {"Select", "Insert", "Update", "Delete", "RelationshipAccess", "Unknown"}}

        DbOperationTypeNames ==
            {<<"S", "E", "L", "E", "C", "T">>, <<"I", "N", "S", "E", "R", "T">>, <<"U", "P", "D", "A", "T", "E">>, <<"D", "E", "L", "E", "T", "E">>, <<"C", "O", "N", "N", "E", "C", "T">>, <<"B", "E", "G", "I", "N">>, <<"C", "O", "M", "M", "I", "T">>,
             <<"R", "O", "L", "L", "B", "A", "C", "K">>, <<"R", "A", "W", "_", "S", "Q", "L">>, <<"U", "P", "S", "E", "R", "T">>}

        \* The record of the Go, Rust and TypeScript DB extractors.
        DbShape(library, operation_type) ==
            [library |-> library, operation_type |-> operation_type, has_timeout |-> FALSE,
             timeout_value |-> None, in_transaction |-> FALSE, eager_loading |-> None,
             in_loop |-> FALSE, in_iteration |-> FALSE, model_name |-> None,
             relationship_field |-> None, operation_text |-> <<"d", "b", ".", "q", "(", ")">>,
             enclosing_function |-> None]

        GoDbShapes ==
            {DbShape(l, <<"S", "E", "L", "E", "C", "T">>) : l \in {<<"d", "a", "t", "a", "b", "a", "s", "e", "/", "s", "q", "l">>, <<"G", "O", "R", "M">>, <<"s", "q", "l", "x">>, <<"s", "q", "l", "c">>, <<"p", "g", "x">>}}
              \cup {DbShape(<<"G", "O", "R", "M">>, t) : t \in DbOperationTypeNames}

        RustDbShapes ==
            {DbShape(l, <<"S", "E", "L", "E", "C", "T">>) : l \in {<<"D", "i", "e", "s", "e", "l">>, <<"S", "e", "a", "O", "R", "M">>, <<"s", "q", "l", "x">>, <<"t", "o", "k", "i", "o", "-", "p", "o", "s", "t", "g", "r", "e", "s">>, <<"r", "u", "s", "q", "l", "i", "t", "e">>}}
              \cup {DbShape(<<"D", "i", "e", "s", "e", "l">>, t) : t \in DbOperationTypeNames}

        TsDbShapes ==
            {DbShape(l, <<"S", "E", "L", "E", "C", "T">>) : l \in {<<"P", "r", "i", "s", "m", "a">>, <<"T", "y", "p", "e", "O", "R", "M">>, <<"K", "n", "e", "x">>, <<"S", "e", "q", "u", "e", "l", "i", "z", "e">>,
                                            <<"D", "r", "i", "z", "z", "l", "e", " ", "O", "R", "M">>, <<"M", "o", "n", "g", "o", "o", "s", "e">>}}
              \cup {DbShape(<<"P", "r", "i", "s", "m", "a">>, t) : t \in DbOperationTypeNames}

        PyAsyncShapes ==
            {[operation_type |-> t, has_error_handling |-> FALSE, has_timeout |-> FALSE,
              timeout_value |-> None, has_cancellation |-> FALSE, is_bounded |-> FALSE,
              bound_limit |-> None, operation_text |-> <<"a", "w", "a", "i", "t", " ", "x">>, enclosing_function |-> None] :
                t \in {"TaskSpawn", "Await", "TaskGather", "ChannelSend", "ChannelReceive",
                       "LockAcquire", "LockRelease", "SemaphoreAcquire", "Sleep", "Timeout",
                       "Select", "AsyncFor", "Unknown"}}
              \cup
            {[operation_type |-> "TaskSpawn", has_error_handling |-> e, has_timeout |-> TRUE,
              timeout_value |-> Some(F64("number", FALSE, <<"5">>, 0, 1)), has_cancellation |-> c,
              is_bounded |-> TRUE,
              bound_limit |-> Some(2), operation_text |-> <<"a", "w", "a", "i", "t", " ", "x">>,
              enclosing_function |-> Some(<<"f">>)] :
                e \in BOOLEAN, c \in BOOLEAN}

        \* A Go concurrency construct, tagged by the list of GoFileSemantics it is in.
        GoAsyncShapes ==
            {[list |-> "goroutines", has_recover |-> r, has_context_param |-> c,
              has_done_channel |-> d, text |-> <<"g", "o", " ", "f", "(", ")">>, function_name |-> None] :
                r \in BOOLEAN, c \in BOOLEAN, d \in BOOLEAN}
              \cup
            {[list |-> "channel_ops", kind |-> k, text |-> <<"c", "h">>, function_name |-> None] :
                k \in {"Send", "Receive", "Close"}}
              \cup
            {[list |-> "select_statements", is_cancellation_pattern |-> c, text |-> <<"s", "e", "l", "e", "c", "t">>,
              function_name |-> None] : c \in BOOLEAN}
              \cup
            {[list |-> "mutex_operations", operation_type |-> o, uses_defer_unlock |-> u,
              text |-> <<"m", "u">>, function_name |-> None] :
                o \in {<<"L", "o", "c", "k">>, <<"R", "L", "o", "c", "k">>, <<"U", "n", "l", "o", "c", "k">>}, u \in BOOLEAN}
              \cup
            {[list |-> "defers", is_resource_cleanup |-> c, text |-> <<"d", "e", "f", "e", "r">>,
              function_name |-> None] : c \in BOOLEAN}

        RustSpawnShapes ==
            {[has_error_handling |-> e, handle_captured |-> h, spawned_expr |-> <<"w", "o", "r", "k", "(", ")">>,
              function_name |-> fnm] :
                e \in BOOLEAN, h \in BOOLEAN, fnm \in {None, Some(<<"f">>)}}

        TsAsyncShapes ==
            {[operation_type |-> t, has_error_handling |-> FALSE, has_timeout |-> FALSE,
              timeout_value |-> None, has_cancellation |-> FALSE,
              operation_text |-> <<"a", "w", "a", "i", "t", " ", "x">>, enclosing_function |-> None] :
                t \in {"PromiseConstructor", "Await", "PromiseCombinator", "PromiseChain",
                       "Timeout", "Cancellation", "AsyncFunction", "AsyncArrow", "Unknown"}}
              \cup
            {[operation_type |-> "Await", has_error_handling |-> e, has_timeout |-> TRUE,
              timeout_value |-> Some(F64("number", FALSE, <<"5">>, 0, 1)), has_cancellation |-> c,
              operation_text |-> <<"a", "w", "a", "i", "t", " ", "x">>, enclosing_function |-> Some(<<"f">>)] :
                e \in BOOLEAN, c \in BOOLEAN}

        PyImportShapes ==
            {[module |-> mo, style |-> "Import", category |-> c, names |-> <<>>, alias |-> a] :
                mo \in {<<"o", "s">>}, c \in {"Stdlib", "ThirdParty", "Local"}, a \in {None, Some(<<"o">>)}}
              \cup
            {[module |-> mo, style |-> "FromImport", category |-> c, names |-> ns,
              alias |-> None] :
                mo \in {<<"a", ".", "b">>, <<>>}, c \in {"Stdlib", "ThirdParty", "Local"},
                ns \in {<<>>, <<<<"x">>>>}}

        GoImportShapes ==
            {[path |-> p, alias |-> a] :
                p \in {<<"f", "m", "t">>, <<"n", "e", "t", "/", "h", "t", "t", "p">>, <<"g", "i", "t", "h", "u", "b", ".", "c", "o", "m", "/", "x", "/", "y">>, <<"g", "o", "l", "a", "n", "g", ".", "o", "r", "g", "/", "x", "/", "z">>, <<"g", "o", "p", "k", "g", ".", "i", "n", "/", "y">>,
                       <<".", "/", "u", "t", "i", "l">>, <<"/", "a", "b", "s">>, <<".", ".", "/", "u", "p">>, <<>>},
                a \in {None, Some(<<"p">>)}}

        RustUseShapes ==
            {[path |-> p, is_glob |-> g, items |-> it, alias |-> None] :
                p \in {<<"s", "t", "d", ":", ":", "i", "o">>, <<"c", "o", "r", "e", ":", ":", "f", "m", "t">>, <<"c", "r", "a", "t", "e", ":", ":", "a">>, <<"s", "u", "p", "e", "r", ":", ":", "b">>, <<"s", "e", "l", "f", ":", ":", "c">>, <<"s", "e", "r", "d", "e">>, <<>>},
                g \in BOOLEAN, it \in {<<>>, <<<<"X">>>>}}

        TsImportShapes ==
            {[module |-> mo, default_import |-> d, namespace_import |-> n, named_imports |-> it,
              is_type_only |-> FALSE] :
                mo \in {<<".", "/", "a">>, <<"r", "e", "a", "c", "t">>, <<>>}, d \in {None, Some(<<"D">>)},
                n \in {None, Some(<<"N">>)},
                it \in {<<>>, <<<<"X">>>>}}
    IN
    CASE cat = "http_calls" ->
           (CASE lang = "Python" -> PyHttpShapes [] lang = "Go" -> GoHttpShapes
              [] lang = "Rust" -> RustHttpShapes [] lang = "Typescript" -> TsHttpShapes)
      [] cat = "db_operations" ->
           (CASE lang = "Python" -> PyDbShapes [] lang = "Go" -> GoDbShapes
              [] lang = "Rust" -> RustDbShapes [] lang = "Typescript" -> TsDbShapes)
      [] cat = "async_operations" ->
           (CASE lang = "Python" -> PyAsyncShapes [] lang = "Go" -> GoAsyncShapes
              [] lang = "Rust" -> RustSpawnShapes [] lang = "Typescript" -> TsAsyncShapes)
      [] cat = "imports" ->
           (CASE lang = "Python" -> PyImportShapes [] lang = "Go" -> GoImportShapes
              [] lang = "Rust" -> RustUseShapes [] lang = "Typescript" -> TsImportShapes)

MutexPos(i) ==
    [location        |-> [range |-> [start_line |-> i - 1, start_col |-> 0]],
     lock_start_byte |-> i - 1,
     lock_end_byte   |-> i]

ImportPos(i) == [location |-> [range |-> [start_line |-> i - 1, start_col |-> 0]]]

\* uses_tokio and uses_async_std of RustAsyncInfo.
Runtimes == {[uses_tokio |-> t, uses_async_std |-> a] : t \in BOOLEAN, a \in BOOLEAN}
NoRuntime == [uses_tokio |-> FALSE, uses_async_std |-> FALSE]

\* The semantics of a file of the language whose extractor found the records
\* q (shapes in file order) of one category; rt is the async runtime in use.
SemOf(lang, cat, q, rt) ==
    LET none   == EmptySem(lang)
        ast    == [i \in 1..Len(q) |-> q[i] @@ AstPos(i)]
        db     == [i \in 1..Len(q) |-> q[i] @@ DbPos(none.file_id, i)]
        common == [i \in 1..Len(q) |->
                     q[i] @@ [location   |-> CommonLocation(none.file_id, i, 1, i - 1, i),
                              start_byte |-> i - 1,
                              end_byte   |-> i]]
        imp    == [i \in 1..Len(q) |-> q[i] @@ ImportPos(i)]
        go     == [i \in 1..Len(q) |->
                     q[i] @@ (IF q[i].list = "mutex_operations" THEN MutexPos(i)
                              ELSE AstPos(i))]
        OfList(l) == LET InList(r) == r.list = l IN SelectSeq(go, InList)
    IN CASE cat = "http_calls" ->
              [none EXCEPT !.http_calls = IF lang = "Rust" THEN common ELSE ast]
         [] cat = "db_operations" /\ lang = "Python" -> [none EXCEPT !.orm_queries = ast]
         [] cat = "db_operations" /\ lang # "Python" -> [none EXCEPT !.db_operations = db]
         [] cat = "async_operations" /\ lang \in {"Python", "Typescript"} ->
              [none EXCEPT !.async_operations = ast]
         [] cat = "async_operations" /\ lang = "Go" ->
              [none EXCEPT !.goroutines        = OfList("goroutines"),
                           !.channel_ops       = OfList("channel_ops"),
                           !.select_statements = OfList("select_statements"),
                           !.mutex_operations  = OfList("mutex_operations"),
                           !.defers            = OfList("defers")]
         [] cat = "async_operations" /\ lang = "Rust" ->
              [none EXCEPT !.async_info = [spawn_calls    |-> ast,
                                           uses_tokio     |-> rt.uses_tokio,
                                           uses_async_std |-> rt.uses_async_std]]
         [] cat = "imports" /\ lang = "Rust" -> [none EXCEPT !.uses = imp]
         [] cat = "imports" /\ lang # "Rust" -> [none EXCEPT !.imports = imp]

InitNorm ==
    /\ \/ \E lang \in Langs, cat \in Categories :
            \E q \in SeqsUpTo(Shapes(lang, cat), MaxRecs),
               rt \in (IF lang = "Rust" /\ cat = "async_operations"
                       THEN Runtimes ELSE {NoRuntime}) :
               sem = SemOf(lang, cat, q, rt)
       \/ \E lang \in Langs, defs \in SeqsUpTo({r \in FnRanges : r.start_byte = 0}, MaxRecs) :
            \E split \in 0..Len(defs) :
               sem = MkSem(lang, defs, split, <<>>, CallExprs)
    /\ out = NoOut
    /\ file = <<>>

\* A caller asks the file's semantics for one of the normalized categories.
HttpCalls ==
    /\ out.op = "none"
    /\ sem.lang \in Langs
    /\ out' = [op |-> "http_calls", val |-> http_calls(sem)]
    /\ UNCHANGED <<sem, file>>

DbOperations ==
    /\ out.op = "none"
    /\ sem.lang \in Langs
    /\ out' = [op |-> "db_operations", val |-> db_operations(sem)]
    /\ UNCHANGED <<sem, file>>

AsyncOperations ==
    /\ out.op = "none"
    /\ sem.lang \in Langs
    /\ out' = [op |-> "async_operations", val |-> async_operations(sem)]
    /\ UNCHANGED <<sem, file>>

Imports ==
    /\ out.op = "none"
    /\ sem.lang \in Langs
    /\ out' = [op |-> "imports", val |-> imports(sem)]
    /\ UNCHANGED <<sem, file>>

NextNorm == Imports \/ Functions \/ HttpCalls \/ DbOperations \/ AsyncOperations

SpecNorm == InitNorm /\ [][NextNorm]_vars

(***************************************************************************)
(* rust/http.rs: the parsed Rust file.  A syntax node has a kind, the      *)
(* text it spans, its byte range and its children, each child with its     *)
(* field name ("" when it has none) and the whitespace before it.  Tokens  *)
(* are leaves whose kind is their text, as the parser reports them.        *)
(***************************************************************************)
MaxChain == 2       \* calls and awaits chained on the root call of a request

Leaf(kind, text) ==
    [kind |-> kind, text |-> text, children |-> <<>>, names |-> <<>>, gaps |-> <<>>,
     start_byte |-> 0, end_byte |-> 0]

Tok(text) == Leaf(text, text)

\* A child of a node under construction.
Part(name, gap, node) == [name |-> name, gap |-> gap, node |-> node]

RECURSIVE PartsText(_)
PartsText(parts) ==
    IF Len(parts) = 0 THEN <<>>
    ELSE Head(parts).gap \o Head(parts).node.text \o PartsText(Tail(parts))

Node(kind, parts) ==
    [kind |-> kind, text |-> PartsText(parts),
     children |-> [k \in 1..Len(parts) |-> parts[k].node],
     names |-> [k \in 1..Len(parts) |-> parts[k].name],
     gaps |-> [k \in 1..Len(parts) |-> parts[k].gap],
     start_byte |-> 0, end_byte |-> 0]

\* Offset of the k-th child from the start of its parent.
RECURSIVE ChildOffset(_, _)
ChildOffset(n, k) ==
    IF k = 1 THEN Len(n.gaps[1])
    ELSE ChildOffset(n, k - 1) + Len(n.children[k - 1].text) + Len(n.gaps[k])

\* The byte ranges of a tree whose root starts at byte at.
RECURSIVE Place(_, _)
Place(n, at) ==
    [n EXCEPT !.start_byte = at,
              !.end_byte   = at + Len(n.text),
              !.children   = [k \in 1..Len(n.children) |->
                                Place(n.children[k], at + ChildOffset(n, k))]]

\* ParsedFile: the source text and its syntax tree.
ParsedFile(root) == [content |-> root.text, tree |-> [root_node |-> Place(root, 0)]]

text_for_node(f, node) == SubSeq(f.content, node.start_byte + 1, node.end_byte)

\* The sources of the model are one line long: the column is the byte.
location_for_node(f, node) ==
    [range |-> [start_line |-> 0, start_col |-> node.start_byte]]

\* Node::child_by_field_name.
child_by_field_name(node, name) ==
    IF \E k \in 1..Len(node.names) : node.names[k] = name
    THEN Some(node.children[CHOOSE k \in 1..Len(node.names) :
                              /\ node.names[k] = name
                              /\ \A j \in 1..(k - 1) : node.names[j] # name])
    ELSE None

(***************************************************************************)
(* Rust syntax, as the grammar shapes it.                                  *)
(***************************************************************************)
Ident(text) == Leaf("identifier", text)

\* a::b; kind is the kind the parser gives to the callee path of a call.
ScopedPath(kind, path, name) ==
    Node(kind, <<Part("path", <<>>, path), Part("", <<>>, Tok(<<":", ":">>)),
                 Part("name", <<>>, Ident(name))>>)

\* (a) or ().
Arguments(args) ==
    Node("arguments",
         <<Part("", <<>>, Tok(<<"(">>))>>
           \o [k \in 1..Len(args) |-> Part("", <<>>, args[k])]
           \o <<Part("", <<>>, Tok(<<")">>))>>)

CallExpression(function, args) ==
    Node("call_expression",
         <<Part("function", <<>>, function), Part("arguments", <<>>, Arguments(args))>>)

FieldExpression(value, field) ==
    Node("field_expression",
         <<Part("value", <<>>, value), Part("", <<>>, Tok(<<".">>)),
           Part("field", <<>>, Leaf("field_identifier", field))>>)

AwaitExpression(e) ==
    Node("await_expression",
         <<Part("", <<>>, e), Part("", <<>>, Tok(<<".">>)), Part("", <<>>, Tok(<<"a", "w", "a", "i", "t">>))>>)

MethodCall(receiver, method, args) == CallExpression(FieldExpression(receiver, method), args)

\* Duration::from_secs(30), Duration::from_millis(500).
DurationCall(kind, ctor, digits) ==
    CallExpression(ScopedPath(kind, Ident(<<"D", "u", "r", "a", "t", "i", "o", "n">>), ctor),
                   <<Leaf("integer_literal", digits)>>)

\* let r = e;
LetDeclaration(e) ==
    Node("let_declaration",
         <<Part("", <<>>, Tok(<<"l", "e", "t">>)), Part("pattern", <<" ">>, Ident(<<"r">>)),
           Part("", <<" ">>, Tok(<<"=">>)), Part("value", <<" ">>, e), Part("", <<>>, Tok(<<";">>))>>)

\* fn name() { e; } or async fn name() { e; }
FunctionItem(is_async, name, e) ==
    Node("function_item",
         (IF is_async
          THEN <<Part("", <<>>, Node("function_modifiers", <<Part("", <<>>, Tok(<<"a", "s", "y", "n", "c">>))>>)),
                 Part("", <<" ">>, Tok(<<"f", "n">>))>>
          ELSE <<Part("", <<>>, Tok(<<"f", "n">>))>>)
           \o <<Part("name", <<" ">>, Ident(name)),
                Part("parameters", <<>>, Node("parameters", <<Part("", <<>>, Tok(<<"(">>)),
                                                             Part("", <<>>, Tok(<<")">>))>>)),
                Part("body", <<" ">>,
                     Node("block",
                          <<Part("", <<>>, Tok(<<"{">>)),
                            Part("", <<" ">>, Node("expression_statement",
                                               <<Part("", <<>>, e), Part("", <<>>, Tok(<<";">>))>>)),
                            Part("", <<" ">>, Tok(<<"}">>))>>))>>)

SourceFile(items) ==
    Node("source_file",
         [k \in 1..Len(items) |-> Part("", IF k = 1 THEN <<>> ELSE <<" ">>, items[k])])

(***************************************************************************)
(* rust/http.rs: summarize_http_clients and its helpers.                   *)
(***************************************************************************)
\* str::find(pattern): 1-based index of the first occurrence, 0 when absent.
StrFind(s, p) ==
    IF Contains(s, p)
    THEN CHOOSE i \in 1..(Len(s) - Len(p) + 1) :
            /\ SubSeq(s, i, i + Len(p) - 1) = p
            /\ \A j \in 1..(i - 1) : SubSeq(s, j, j + Len(p) - 1) # p
    ELSE 0

\* 1-based index of the last occurrence of pattern, 0 when absent.
StrRFind(s, p) ==
    IF Contains(s, p)
    THEN CHOOSE i \in 1..(Len(s) - Len(p) + 1) :
            /\ SubSeq(s, i, i + Len(p) - 1) = p
            /\ \A j \in (i + 1)..(Len(s) - Len(p) + 1) : SubSeq(s, j, j + Len(p) - 1) # p
    ELSE 0

\* s.split(ch).next(): the text before the first ch, all of s without one.
SplitNext(s, ch) == IF Find(s, ch) = 0 THEN s ELSE SubSeq(s, 1, Find(s, ch) - 1)

\* str::strip_prefix.
StripPrefix(s, p) == IF StartsWith(s, p) THEN Some(SubSeq(s, Len(p) + 1, Len(s))) ELSE None

\* The characters with the White_Space property: char::is_whitespace.
WhiteSpace ==
    {"\t", "\n", "U+000B", "\f", "\r", " ", "U+0085", "U+00A0", "U+1680", "U+2000", "U+2001",
     "U+2002", "U+2003", "U+2004", "U+2005", "U+2006", "U+2007", "U+2008", "U+2009", "U+200A",
     "U+2028", "U+2029", "U+202F", "U+205F", "U+3000"}

\* str::trim: the text without its leading and trailing white space.
RECURSIVE Trim(_)
Trim(s) ==
    IF Len(s) > 0 /\ s[1] \in WhiteSpace THEN Trim(Tail(s))
    ELSE IF Len(s) > 0 /\ s[Len(s)] \in WhiteSpace THEN Trim(SubSeq(s, 1, Len(s) - 1))
    ELSE s

Digits == <<"0", "1", "2", "3", "4", "5", "6", "7", "8", "9">>

IsDigit(c) == \E k \in 1..Len(Digits) : Digits[k] = c

\* str::parse::<f64>: an optional sign followed by inf, infinity or nan in
\* any letter case, or by a decimal number: digits with an optional point,
\* at least one digit before or after it, and an optional exponent e or E
\* with an optional sign and at least one digit.  Every other text, the
\* empty one and one with white space included, fails to parse.  The text
\* is read character by character; the exponent is read digit by digit
\* while it is below 0x10000.
ParseF64(s) ==
    LET Start == [phase |-> "start", negative |-> FALSE, mantissa |-> <<>>, fraction |-> 0,
                  exp_negative |-> FALSE, exp |-> 0]
        Step(read, c) ==
            LET DigitOf == (CHOOSE d \in 1..Len(Digits) : Digits[d] = c) - 1
            IN CASE read.phase \in {"start", "sign", "int"} /\ IsDigit(c) ->
                      [read EXCEPT !.phase = "int", !.mantissa = Append(@, c)]
                 [] read.phase \in {"point", "frac"} /\ IsDigit(c) ->
                      [read EXCEPT !.phase = "frac", !.mantissa = Append(@, c),
                                   !.fraction = @ + 1]
                 [] read.phase \in {"e", "exp_sign", "exp"} /\ IsDigit(c) ->
                      [read EXCEPT !.phase = "exp",
                                   !.exp = IF @ < 65536 THEN 10 * @ + DigitOf ELSE @]
                 [] read.phase = "start" /\ c \in {"+", "-"} ->
                      [read EXCEPT !.phase = "sign", !.negative = (c = "-")]
                 [] read.phase \in {"start", "sign", "int"} /\ c = "." ->
                      [read EXCEPT !.phase = "point"]
                 [] read.phase \in {"int", "point", "frac"} /\ c \in {"e", "E"}
                      /\ read.mantissa # <<>> ->
                      [read EXCEPT !.phase = "e"]
                 [] read.phase = "e" /\ c \in {"+", "-"} ->
                      [read EXCEPT !.phase = "exp_sign", !.exp_negative = (c = "-")]
                 [] OTHER -> [read EXCEPT !.phase = "invalid"]
        scan[k \in 0..Len(s)] == IF k = 0 THEN Start ELSE Step(scan[k - 1], s[k])
        Number(read) ==
            LET nonzero == {i \in 1..Len(read.mantissa) : read.mantissa[i] # "0"}
                first   == CHOOSE i \in nonzero : \A j \in nonzero : i <= j
                last    == CHOOSE i \in nonzero : \A j \in nonzero : j <= i
            IN IF nonzero = {} THEN F64("number", read.negative, <<>>, 0, 1)
               ELSE F64("number", read.negative, SubSeq(read.mantissa, first, last),
                        (IF read.exp_negative THEN 0 - read.exp ELSE read.exp)
                          - read.fraction + Len(read.mantissa) - last,
                        1)
        IsNumber(read) ==
            /\ read.phase \in {"int", "point", "frac", "exp"}
            /\ read.mantissa # <<>>
        \* Each character of t is the letter of the word in one of its two cases.
        IgnoreCase(t, lower, upper) ==
            /\ Len(t) = Len(lower)
            /\ \A i \in 1..Len(lower) : t[i] \in {lower[i], upper[i]}
        Special(negative, t) ==
            IF IgnoreCase(t, <<"i", "n", "f">>, <<"I", "N", "F">>) \/ IgnoreCase(t, <<"i", "n", "f", "i", "n", "i", "t", "y">>, <<"I", "N", "F", "I", "N", "I", "T", "Y">>)
            THEN Some(F64("infinity", negative, <<>>, 0, 1))
            ELSE IF IgnoreCase(t, <<"n", "a", "n">>, <<"N", "A", "N">>) THEN Some(F64("nan", negative, <<>>, 0, 1))
            ELSE None
        Parsed(read) ==
            IF IsNumber(read) THEN Some(Number(read))
            ELSE IF Len(s) > 0 /\ s[1] \in {"+", "-"} THEN Special(s[1] = "-", Tail(s))
            ELSE Special(FALSE, s)
    IN Parsed(scan[Len(s)])

\* rest[..end].parse::<f64>() of a number of milliseconds followed by
\* ms / 1000.0: two roundings.  An infinity, a NaN and a zero divided are
\* themselves.  An integer below 10^15 is parsed exactly, so that only the
\* division rounds and the quotient is the f64 nearest to the integer with
\* the point shifted by three digits.  Of any other number the quotient is
\* kept as the division of the parsed f64 by 1000.0.
ParseMillis(s) ==
    LET Divided(ms) ==
            IF ms.class # "number" \/ ms.digits = <<>> THEN ms
            ELSE IF ms.exponent >= 0 /\ Len(ms.digits) + ms.exponent <= 15
                 THEN [ms EXCEPT !.exponent = @ - 3]
            ELSE [ms EXCEPT !.divisor = 1000]
        Quotient(parsed) == IF IsNone(parsed) THEN None ELSE Some(Divided(Unwrap(parsed)))
    IN Quotient(ParseF64(s))

is_http_method(s) ==
    s \in {<<"g", "e", "t">>, <<"p", "o", "s", "t">>, <<"p", "u", "t">>, <<"p", "a", "t", "c", "h">>, <<"d", "e", "l", "e", "t", "e">>, <<"h", "e", "a", "d">>, <<"o", "p", "t", "i", "o", "n", "s">>}

extract_method_from_blocking_call(path) ==
    LET at     == StrRFind(path, <<":", ":">>)
        method == IF at = 0 THEN None ELSE Some(SplitNext(SubSeq(path, 1, at - 1), "("))
    IN IF IsSome(method) /\ is_http_method(Unwrap(method)) THEN Unwrap(method) ELSE path

\* The value after a call of Duration::from_secs( or Duration::from_millis(
\* at the head of text after: the text up to the first ')' parsed.
DurationValue(after, ctor, millis) ==
    LET rest == StripPrefix(after, ctor)
        stop == IF IsSome(rest) THEN Find(Unwrap(rest), ")") ELSE 0
        digits == IF stop = 0 THEN <<>> ELSE SubSeq(Unwrap(rest), 1, stop - 1)
    IN IF stop = 0 THEN None
       ELSE IF millis THEN ParseMillis(digits) ELSE ParseF64(digits)

extract_timeout_value(args_text, pattern) ==
    LET found == StrFind(args_text, pattern)
        after == SubSeq(args_text, found + Len(pattern), Len(args_text))
        secs  == DurationValue(after, <<"D", "u", "r", "a", "t", "i", "o", "n", ":", ":", "f", "r", "o", "m", "_", "s", "e", "c", "s", "(">>, FALSE)
        ms    == DurationValue(after, <<"D", "u", "r", "a", "t", "i", "o", "n", ":", ":", "f", "r", "o", "m", "_", "m", "i", "l", "l", "i", "s", "(">>, TRUE)
        rest  == StripPrefix(after, <<",">>)
        before_comma == IF IsSome(rest) THEN Trim(SplitNext(Unwrap(rest), ",")) ELSE <<>>
        stop  == IF Find(before_comma, ")") = 0 THEN Find(before_comma, ",")
                 ELSE IF Find(before_comma, ",") = 0 THEN Find(before_comma, ")")
                 ELSE IF Find(before_comma, ")") < Find(before_comma, ",")
                      THEN Find(before_comma, ")") ELSE Find(before_comma, ",")
    IN IF found = 0 THEN None
       ELSE IF IsSome(secs) THEN secs
       ELSE IF IsSome(ms) THEN ms
       ELSE IF IsSome(rest) /\ stop # 0
            THEN ParseF64(SubSeq(before_comma, 1, stop - 1))
       ELSE None

timeout_patterns ==
    <<<<".", "t", "i", "m", "e", "o", "u", "t", "(">>, <<"t", "i", "m", "e", "o", "u", "t", "(", "D", "u", "r", "a", "t", "i", "o", "n", ":", ":", "f", "r", "o", "m", "_", "s", "e", "c", "s">>, <<"t", "i", "m", "e", "o", "u", "t", "(", "D", "u", "r", "a", "t", "i", "o", "n", ":", ":", "f", "r", "o", "m", "_", "m", "i", "l", "l", "i", "s">>,
      <<"t", "i", "m", "e", "o", "u", "t", "=">>>>

\* detect_timeout returns the pair (has_timeout, timeout_value).
detect_timeout(args_text) ==
    IF \E k \in 1..Len(timeout_patterns) : Contains(args_text, timeout_patterns[k])
    THEN LET first == CHOOSE k \in 1..Len(timeout_patterns) :
                         /\ Contains(args_text, timeout_patterns[k])
                         /\ \A j \in 1..(k - 1) : ~Contains(args_text, timeout_patterns[j])
         IN <<TRUE, extract_timeout_value(args_text, timeout_patterns[first])>>
    ELSE <<FALSE, None>>

detect_client_kind(object, callee_expr) ==
    IF \/ object = <<"r", "e", "q", "w", "e", "s", "t">>
       \/ Contains(callee_expr, <<"r", "e", "q", "w", "e", "s", "t", ":", ":", "C", "l", "i", "e", "n", "t">>)
       \/ Contains(callee_expr, <<"r", "e", "q", "w", "e", "s", "t", ":", ":", "b", "l", "o", "c", "k", "i", "n", "g", ":", ":", "C", "l", "i", "e", "n", "t">>)
       \/ Contains(object, <<"c", "l", "i", "e", "n", "t">>)
    THEN IF Contains(callee_expr, <<"b", "l", "o", "c", "k", "i", "n", "g", ":", ":">>)
         THEN Some(Variant("ReqwestBlocking")) ELSE Some(Variant("Reqwest"))
    ELSE IF object = <<"u", "r", "e", "q">> \/ StartsWith(callee_expr, <<"u", "r", "e", "q", ":", ":">>) THEN Some(Variant("Ureq"))
    ELSE IF object = <<"h", "y", "p", "e", "r">> \/ Contains(callee_expr, <<"h", "y", "p", "e", "r", ":", ":">>) THEN Some(Variant("Hyper"))
    ELSE IF object = <<"s", "u", "r", "f">> \/ Contains(callee_expr, <<"s", "u", "r", "f", ":", ":">>) THEN Some(Variant("Surf"))
    ELSE IF Contains(callee_expr, <<"a", "w", "c", ":", ":">>) \/ object = <<"a", "w", "c">> THEN Some(Variant("Awc"))
    ELSE IF Contains(callee_expr, <<"i", "s", "a", "h", "c", ":", ":">>) \/ object = <<"i", "s", "a", "h", "c">> THEN Some(Variant("Isahc"))
    ELSE None

HttpCallContext(current_function, in_async_fn) ==
    [current_function |-> current_function, in_async_fn |-> in_async_fn]

HttpCallSite(f, node, client_kind, method_name, timeout, function_name, in_async_function, has_await) ==
    [client_kind       |-> client_kind,
     method_name       |-> method_name,
     call_text         |-> text_for_node(f, node),
     has_timeout       |-> timeout[1],
     timeout_value     |-> timeout[2],
     location          |-> location_for_node(f, node),
     function_name     |-> function_name,
     in_async_function |-> in_async_function,
     has_await         |-> has_await,
     start_byte        |-> node.start_byte,
     end_byte          |-> node.end_byte]

\* The method-call arm of extract_http_call: Some(site), or None to go on
\* to the path arm.  A field_expression without value or field ends
\* extract_http_call with None (the ? operator); the caller tests for that.
extract_method_call(f, node, func_node, ctx, has_await) ==
    LET callee_expr == text_for_node(f, func_node)
        object      == text_for_node(f, Unwrap(child_by_field_name(func_node, "value")))
        method_name == text_for_node(f, Unwrap(child_by_field_name(func_node, "field")))
        client_kind == detect_client_kind(object, callee_expr)
        args_node   == child_by_field_name(node, "arguments")
        args_text   == IF IsSome(args_node) THEN text_for_node(f, Unwrap(args_node)) ELSE <<>>
    IN IF IsSome(client_kind)
       THEN Some(HttpCallSite(f, node, Unwrap(client_kind), method_name,
                              detect_timeout(args_text), ctx.current_function,
                              ctx.in_async_fn, has_await))
       ELSE None

\* The path arm of extract_http_call.
extract_path_call(f, node, func_node, ctx, has_await) ==
    LET path_text == text_for_node(f, func_node)
        call_text == text_for_node(f, node)
        ureq_name == IF StartsWith(path_text, <<"u", "r", "e", "q", ":", ":">>)
                     THEN SplitNext(Unwrap(StripPrefix(path_text, <<"u", "r", "e", "q", ":", ":">>)), "(")
                     ELSE path_text
    IN IF Contains(path_text, <<"r", "e", "q", "w", "e", "s", "t", ":", ":", "b", "l", "o", "c", "k", "i", "n", "g", ":", ":">>)
       THEN Some(HttpCallSite(f, node, Variant("ReqwestBlocking"),
                              extract_method_from_blocking_call(path_text),
                              detect_timeout(call_text), ctx.current_function,
                              FALSE, has_await))
       ELSE IF StartsWith(path_text, <<"u", "r", "e", "q", ":", ":">>) /\ is_http_method(ureq_name)
       THEN Some(HttpCallSite(f, node, Variant("Ureq"), ureq_name,
                              detect_timeout(call_text), ctx.current_function,
                              FALSE, has_await))
       ELSE None

extract_http_call(f, node, ctx, has_await) ==
    LET function  == child_by_field_name(node, "function")
        func_node == Unwrap(function)
        by_method == IF func_node.kind = "field_expression"
                     THEN extract_method_call(f, node, func_node, ctx, has_await)
                     ELSE None
    IN IF IsNone(function) THEN None
       ELSE IF /\ func_node.kind = "field_expression"
               /\ \/ IsNone(child_by_field_name(func_node, "value"))
                  \/ IsNone(child_by_field_name(func_node, "field"))
            THEN None
       ELSE IF IsSome(by_method) THEN by_method
       ELSE IF func_node.kind = "path_expression"
            THEN extract_path_call(f, node, func_node, ctx, has_await)
       ELSE None

\* Mutant: the children are walked before the node itself is processed.
RECURSIVE walk_http_calls_post_order(_, _, _, _)
walk_http_calls_post_order(f, node, ctx, has_await) ==
    LET call == IF node.kind = "call_expression"
                THEN extract_http_call(f, node, ctx, has_await) ELSE None
    IN Flatten([i \in 1..Len(node.children) |->
                  walk_http_calls_post_order(f, node.children[i], ctx, has_await)]) \o call

\* Mutant: the walk does not go below a call_expression that gave no site.
RECURSIVE walk_http_calls_stop_at_skipped(_, _, _, _)
walk_http_calls_stop_at_skipped(f, node, ctx, has_await) ==
    LET call == IF node.kind = "call_expression"
                THEN extract_http_call(f, node, ctx, has_await) ELSE None
    IN IF node.kind = "call_expression" /\ IsNone(call) THEN <<>>
       ELSE call \o Flatten([i \in 1..Len(node.children) |->
                               walk_http_calls_stop_at_skipped(f, node.children[i], ctx,
                                                               has_await)])

RECURSIVE walk_http_calls(_, _, _, _)
walk_http_calls(f, node, ctx, has_await) ==
    LET call == IF node.kind = "call_expression"
                THEN extract_http_call(f, node, ctx, has_await) ELSE None
    IN call \o Flatten([i \in 1..Len(node.children) |->
                          walk_http_calls(f, node.children[i], ctx, has_await)])

\* ctx is an Option; the entry point passes None.
collect_http_calls(f, node, ctx, has_await) ==
    LET c == IF IsSome(ctx) THEN Unwrap(ctx) ELSE HttpCallContext(None, FALSE)
        name == child_by_field_name(node, "name")
    IN IF node.kind = "function_item"
       THEN walk_http_calls(f, node,
                HttpCallContext(IF IsSome(name) THEN Some(text_for_node(f, Unwrap(name)))
                                ELSE None,
                                Contains(text_for_node(f, node), <<"a", "s", "y", "n", "c", " ", "f", "n">>)),
                FALSE)
       ELSE IF node.kind = "await_expression"
       THEN walk_http_calls(f, node, c, TRUE)
       ELSE walk_http_calls(f, node, c, has_await)

summarize_http_clients(f) == collect_http_calls(f, f.tree.root_node, None, FALSE)

(***************************************************************************)
(* Rust sources with HTTP requests: a request is a root call followed by   *)
(* chained calls and awaits, at module level or in a function body.        *)
(***************************************************************************)
\* The kind of the callee of a path call such as ureq::get(u): the grammar
\* is not part of this repository; extract_http_call tests for
\* path_expression, the Rust grammar in use names such paths
\* scoped_identifier.
PathKinds == {"path_expression", "scoped_identifier"}

Roots ==
    {"client.get", "client.execute", "client.execute_duration", "ureq::get", "ureq::agent",
     "reqwest::blocking::get", "resp.json"}

\* The integer literals of the Duration constructors.
TimeoutDigits == {<<"0">>, <<"3", "0">>, <<"1", "5", "0", "0">>}

ChainOps == {"send", "timeout_secs", "timeout_millis", "await"}

Wraps == {"let", "fn", "async fn"}

RootExpr(root, kind, digits) ==
    CASE root = "client.get" -> MethodCall(Ident(<<"c", "l", "i", "e", "n", "t">>), <<"g", "e", "t">>, <<Ident(<<"u">>)>>)
      [] root = "client.execute" ->
           MethodCall(Ident(<<"c", "l", "i", "e", "n", "t">>), <<"e", "x", "e", "c", "u", "t", "e">>,
                      <<MethodCall(Ident(<<"r", "e", "q">>), <<"t", "i", "m", "e", "o", "u", "t">>, <<Ident(<<"d">>)>>)>>)
      [] root = "client.execute_duration" ->
           MethodCall(Ident(<<"c", "l", "i", "e", "n", "t">>), <<"e", "x", "e", "c", "u", "t", "e">>,
                      <<MethodCall(Ident(<<"r", "e", "q">>), <<"t", "i", "m", "e", "o", "u", "t">>,
                                   <<DurationCall(kind, <<"f", "r", "o", "m", "_", "s", "e", "c", "s">>, digits)>>)>>)
      [] root = "ureq::get" ->
           CallExpression(ScopedPath(kind, Ident(<<"u", "r", "e", "q">>), <<"g", "e", "t">>), <<Ident(<<"u">>)>>)
      [] root = "ureq::agent" ->
           CallExpression(ScopedPath(kind, Ident(<<"u", "r", "e", "q">>), <<"a", "g", "e", "n", "t">>), <<>>)
      [] root = "reqwest::blocking::get" ->
           CallExpression(ScopedPath(kind, ScopedPath("scoped_identifier", Ident(<<"r", "e", "q", "w", "e", "s", "t">>),
                                                      <<"b", "l", "o", "c", "k", "i", "n", "g">>), <<"g", "e", "t">>),
                          <<Ident(<<"u">>)>>)
      [] root = "resp.json" -> MethodCall(Ident(<<"r", "e", "s", "p">>), <<"j", "s", "o", "n">>, <<>>)

RECURSIVE Chained(_, _, _, _)
Chained(e, ops, kind, digits) ==
    IF Len(ops) = 0 THEN e
    ELSE Chained(CASE Head(ops) = "send" -> MethodCall(e, <<"s", "e", "n", "d">>, <<>>)
                   [] Head(ops) = "timeout_secs" ->
                        MethodCall(e, <<"t", "i", "m", "e", "o", "u", "t">>, <<DurationCall(kind, <<"f", "r", "o", "m", "_", "s", "e", "c", "s">>, digits)>>)
                   [] Head(ops) = "timeout_millis" ->
                        MethodCall(e, <<"t", "i", "m", "e", "o", "u", "t">>, <<DurationCall(kind, <<"f", "r", "o", "m", "_", "m", "i", "l", "l", "i", "s">>, digits)>>)
                   [] Head(ops) = "await" -> AwaitExpression(e),
                 Tail(ops), kind, digits)

Item(wrap, name, e) ==
    IF wrap = "let" THEN LetDeclaration(e) ELSE FunctionItem(wrap = "async fn", name, e)

\* What follows the first item of the file: nothing, or a plain request at
\* module level or in a function g.
Trailers == {"none", "let", "fn"}

RustSource(wrap, root, ops, kind, trailer, digits) ==
    SourceFile(<<Item(wrap, <<"f">>, Chained(RootExpr(root, kind, digits), ops, kind, digits))>>
                 \o (IF trailer = "none" THEN <<>>
                     ELSE <<Item(trailer, <<"g">>, RootExpr("client.get", kind, digits))>>))

\* Whether a source built from root and ops holds a Duration literal.
HasDuration(root, ops) ==
    \/ root = "client.execute_duration"
    \/ \E k \in 1..Len(ops) : ops[k] \in {"timeout_secs", "timeout_millis"}

InitHttp ==
    /\ \E wrap \in Wraps, root \in Roots, ops \in SeqsUpTo(ChainOps, MaxChain),
          kind \in PathKinds, trailer \in Trailers :
          \E digits \in IF HasDuration(root, ops) THEN TimeoutDigits ELSE {<<"3", "0">>} :
              file = ParsedFile(RustSource(wrap, root, ops, kind, trailer, digits))
    /\ sem = EmptySem("Rust")
    /\ out = NoOut

SummarizeHttpClients ==
    /\ out.op = "none"
    /\ file # <<>>
    /\ out' = [op |-> "summarize_http_clients", val |-> summarize_http_clients(file)]
    /\ UNCHANGED <<sem, file>>

NextHttp == SummarizeHttpClients

SpecHttp == InitHttp /\ [][NextHttp]_vars

(***************************************************************************)
(* detect_timeout on argument texts: a timeout written as one of the       *)
(* patterns, or another keyword, followed by a number, a Duration or an    *)
(* identifier.                                                             *)
(***************************************************************************)
MaxDigits == 2      \* digits of a whole number in an argument text

InitTimeout ==
    LET TimeoutLeads == {<<>>, <<"(">>, <<"(", "u", ",", " ">>}
        TimeoutHeads == {<<".", "t", "i", "m", "e", "o", "u", "t", "(">>, <<"t", "i", "m", "e", "o", "u", "t", "(">>, <<"t", "i", "m", "e", "o", "u", "t", "=">>, <<"t", "i", "m", "e", "o", "u", "t", "=", ",">>, <<"t", "i", "m", "e", "o", "u", "t", "=", ",", " ">>,
                         <<"t", "i", "m", "e", "o", "u", "t", "=", ",", "\t">>, <<"r", "e", "t", "r", "i", "e", "s", "=">>}
        TimeoutTails == {<<>>, <<")">>, <<",", " ", "y", ")">>}
        \* Other texts in the place of the whole number: numbers with a point,
        \* an exponent or a sign, the special values, and texts that are no
        \* number.
        NumberTexts ==
            {<<"1", ".", "5">>, <<".", "5">>, <<"5", ".">>, <<"3", "3", ".", "3">>, <<"1", "e", "3">>, <<"1", "e", "2", "3">>, <<"1", "5", "E", "-", "1">>, <<"+", "5">>, <<"-", "0">>, <<"i", "n", "f">>,
             <<"-", "I", "n", "f", "i", "n", "i", "t", "y">>, <<"N", "a", "N">>, <<"1", "e">>, <<".">>, <<"5", " ">>}
        TimeoutBodies(n) ==
            {n, <<"D", "u", "r", "a", "t", "i", "o", "n", ":", ":", "f", "r", "o", "m", "_", "s", "e", "c", "s", "(">> \o n \o <<")">>, <<"D", "u", "r", "a", "t", "i", "o", "n", ":", ":", "f", "r", "o", "m", "_", "m", "i", "l", "l", "i", "s", "(">> \o n \o <<")">>,
             <<"d">>}
    IN /\ \E lead \in TimeoutLeads, head \in TimeoutHeads, tail \in TimeoutTails,
             n \in SeqsUpTo({"0", "3", "5"}, MaxDigits) \cup NumberTexts :
             \E body \in TimeoutBodies(n) :
                 file = [args_text |-> lead \o head \o body \o tail]
       /\ sem = EmptySem("Rust")
       /\ out = NoOut

DetectTimeout ==
    /\ out.op = "none"
    /\ out' = [op |-> "detect_timeout", val |-> detect_timeout(file.args_text)]
    /\ UNCHANGED <<sem, file>>

NextTimeout == DetectTimeout

SpecTimeout == InitTimeout /\ [][NextTimeout]_vars

(***************************************************************************)
(* What the claims about functions() are stated over.                      *)
(***************************************************************************)
\* The byte range the extractor recorded for a call site.
SiteStart(s, site) ==
    IF s.lang \in {"Python", "Go"} THEN site.start_byte
    ELSE site.function_call.location.start_byte

SiteEnd(s, site) ==
    IF s.lang \in {"Python", "Go"} THEN site.end_byte
    ELSE site.function_call.location.end_byte

\* Every function and method record the extractor produced for the file.
ExtractedDefs(s) ==
    LET MethodsOf(block) == block.methods
    IN s.functions \o s.methods \o Flatten(Map(s.impls, MethodsOf))
                   \o Flatten(Map(s.classes, MethodsOf))

\* The positions, in the file's call list, of the calls of a FunctionDef
\* (the extractor numbers the call sites of a file by line).
CallLines(f) == {f.calls[j].line : j \in 1..Len(f.calls)}

SitesWithin(s, f) ==
    {k \in 1..Len(s.calls) :
        f.start_byte <= SiteStart(s, s.calls[k]) /\ SiteEnd(s, s.calls[k]) <= f.end_byte}

FunctionsDone == out.op = "functions"

\* C1: every call listed in a FunctionDef comes from a call site whose byte
\* range lies within the FunctionDef's byte range, in every language.
C1_ByteContainment ==
    FunctionsDone =>
        \A i \in 1..Len(out.val) :
            \A j \in 1..Len(out.val[i].calls) :
                LET f == out.val[i]
                    k == f.calls[j].line
                IN /\ k \in 1..Len(sem.calls)
                   /\ f.start_byte <= SiteStart(sem, sem.calls[k])
                   /\ SiteEnd(sem, sem.calls[k]) <= f.end_byte

\* C1 witness: a method lists a call site that lies strictly inside it, next
\* to a call site outside of it that it does not list.
C1_Witness ==
    /\ FunctionsDone
    /\ \E i \in 1..Len(out.val) :
          /\ out.val[i].kind = "Method"
          /\ Len(out.val[i].calls) = 1
          /\ Len(sem.calls) = 2
          /\ out.val[i].start_byte < SiteStart(sem, sem.calls[out.val[i].calls[1].line])

\* C2: every extracted function or method F yields one FunctionDef, whose
\* calls are exactly the file's call sites with F.start_byte <= start and
\* end <= F.end_byte (boundaries and zero-length sites included), each once,
\* in the order of the file's call list, with the callee expression kept.
C2_AttributionExact ==
    FunctionsDone =>
        /\ Len(out.val) = Len(ExtractedDefs(sem))
        /\ \A i \in 1..Len(out.val) :
              LET f == out.val[i]
                  d == ExtractedDefs(sem)[i]
              IN /\ f.start_byte = d.start_byte /\ f.end_byte = d.end_byte
                 /\ CallLines(f) = SitesWithin(sem, d)
                 /\ \A j \in 1..Len(f.calls) :
                       /\ f.calls[j].callee_expr =
                             sem.calls[f.calls[j].line].function_call.callee_expr
                       /\ j > 1 => f.calls[j-1].line < f.calls[j].line

\* C2 witness: a function lists two call sites, one starting at its first
\* byte and a zero-length one at its last byte.
C2_Witness ==
    /\ FunctionsDone
    /\ \E i \in 1..Len(out.val) :
          LET f == out.val[i]
          IN /\ Len(f.calls) = 2
             /\ f.start_byte < f.end_byte
             /\ SiteStart(sem, sem.calls[f.calls[1].line]) = f.start_byte
             /\ SiteStart(sem, sem.calls[f.calls[2].line]) = f.end_byte
             /\ SiteEnd(sem, sem.calls[f.calls[2].line]) = f.end_byte

\* G lies within F and is not the same range.
NestedIn(g, f) ==
    /\ f.start_byte <= g.start_byte /\ g.end_byte <= f.end_byte
    /\ (f.start_byte # g.start_byte \/ f.end_byte # g.end_byte)

\* C3 as claimed: when G is nested inside F, a call site listed by G is not
\* listed by F (attribution to the innermost function only).
C3_InnermostOnly ==
    FunctionsDone =>
        \A i, j \in 1..Len(out.val) :
            NestedIn(out.val[j], out.val[i]) =>
                CallLines(out.val[j]) \cap CallLines(out.val[i]) = {}

\* C3 amended: a call site is listed by every FunctionDef whose byte range
\* contains it; when G is nested inside F every call of G is also a call
\* of F, and two FunctionDefs share exactly the call sites lying within both.
C3_AttributedToEveryEnclosing ==
    FunctionsDone =>
        \A i, j \in 1..Len(out.val) :
            /\ NestedIn(out.val[j], out.val[i]) =>
                  CallLines(out.val[j]) \subseteq CallLines(out.val[i])
            /\ i # j =>
                  CallLines(out.val[i]) \cap CallLines(out.val[j]) =
                      SitesWithin(sem, out.val[i]) \cap SitesWithin(sem, out.val[j])

\* C3 witness: G is nested inside F and a call site inside G is listed by both.
C3_Witness ==
    /\ FunctionsDone
    /\ \E i, j \in 1..Len(out.val) :
          /\ NestedIn(out.val[j], out.val[i])
          /\ out.val[j].start_byte < out.val[j].end_byte
          /\ Len(out.val[j].calls) = 1
          /\ CallLines(out.val[j]) \subseteq CallLines(out.val[i])

HasDot(e) == \E i \in 1..Len(e) : e[i] = "."

\* C4: the normalized FunctionCall keeps the callee expression e; when e
\* contains '.', receiver + "." + callee = e and callee contains no '.'
\* (the split is at the rightmost '.'); otherwise receiver is None and
\* callee = e.  The same in all four converters.
C4_CalleeSplittingLaw ==
    FunctionsDone =>
        \A i \in 1..Len(out.val) :
            \A j \in 1..Len(out.val[i].calls) :
                LET c == out.val[i].calls[j]
                    e == sem.calls[c.line].function_call.callee_expr
                IN /\ c.callee_expr = e
                   /\ HasDot(e) =>
                         /\ IsSome(c.receiver)
                         /\ Unwrap(c.receiver) \o <<".">> \o c.callee = e
                         /\ ~HasDot(c.callee)
                   /\ ~HasDot(e) => (c.receiver = None /\ c.callee = e)

\* C4 witness: a callee expression with two dots was split into a dotted
\* receiver and a callee.
C4_Witness ==
    /\ FunctionsDone
    /\ \E i \in 1..Len(out.val) :
          /\ Len(out.val[i].calls) = 1
          /\ out.val[i].calls[1].callee_expr = <<"a", ".", "b", ".", "a">>
          /\ out.val[i].calls[1].receiver = Some(<<"a", ".", "b">>)
          /\ out.val[i].calls[1].callee = <<"a">>

\* The number of records the extractor of s.lang found for a category.
ExtractorCount(s, cat) ==
    CASE cat = "functions"     -> Len(ExtractedDefs(s))
      [] cat = "http_calls"    -> Len(s.http_calls)
      [] cat = "db_operations" ->
           IF s.lang = "Python" THEN Len(s.orm_queries) ELSE Len(s.db_operations)
      [] cat = "imports"       -> IF s.lang = "Rust" THEN Len(s.uses) ELSE Len(s.imports)
      [] cat = "async_operations" ->
           CASE s.lang = "Go" ->
                  Len(s.goroutines) + Len(s.channel_ops) + Len(s.select_statements)
                    + Len(s.mutex_operations) + Len(s.defers)
             [] s.lang = "Rust" -> Len(s.async_info.spawn_calls)
             [] OTHER -> Len(s.async_operations)

\* C5: normalization totality: in every language and every category the
\* normalized list holds one record per extractor record, so its length is
\* the number of extractor records; in particular every Go goroutine,
\* channel operation, select statement, mutex operation and defer yields one
\* AsyncOperation.  The Go mapper pushes nothing for a channel close.
C5_NormalizationTotality ==
    out.op # "none" => Len(out.val) = ExtractorCount(sem, out.op)

\* The shortfall of C5 is confined to Go channel operations of kind Close:
\* the normalized list misses exactly as many records as there are closes.
C5_OnlyChannelCloseDropped ==
    out.op # "none" =>
        LET IsClose(ch) == ch.kind = "Close"
        IN Len(out.val) + (IF out.op = "async_operations" /\ sem.lang = "Go"
                           THEN Len(SelectSeq(sem.channel_ops, IsClose)) ELSE 0)
             = ExtractorCount(sem, out.op)

\* A Go file with a send and a close on a channel was normalized to a
\* single AsyncOperation.
C5_Witness ==
    /\ out.op = "async_operations"
    /\ sem.lang = "Go"
    /\ Len(sem.channel_ops) = 2
    /\ sem.channel_ops[1].kind = "Send"
    /\ sem.channel_ops[2].kind = "Close"
    /\ Len(out.val) = 1
    /\ out.val[1].operation_type = "ChannelSend"

(***************************************************************************)
(* What the claims about summarize_http_clients are stated over: the       *)
(* position of every call expression in the syntax tree.                   *)
(***************************************************************************)
HttpDone == out.op = "summarize_http_clients"

\* A function_item is declared async when its modifiers hold the async token.
DeclaredAsync(node) ==
    \E k \in 1..Len(node.children) :
        /\ node.children[k].kind = "function_modifiers"
        /\ \E j \in 1..Len(node.children[k].children) :
               node.children[k].children[j].kind = <<"a", "s", "y", "n", "c">>

\* Every call_expression below node with the name of its enclosing
\* function_item, whether that function is declared async, and whether an
\* await_expression of that function wraps the call.
RECURSIVE CallContexts(_, _, _, _)
CallContexts(node, fn, is_async, awaited) ==
    LET in_fn    == node.kind = "function_item"
        fn2      == IF in_fn THEN Some(Unwrap(child_by_field_name(node, "name")).text) ELSE fn
        async2   == IF in_fn THEN DeclaredAsync(node) ELSE is_async
        awaited2 == IF in_fn THEN FALSE
                    ELSE IF node.kind = "await_expression" THEN TRUE ELSE awaited
        here     == IF node.kind = "call_expression"
                    THEN <<[start_byte |-> node.start_byte, end_byte |-> node.end_byte,
                            function_name |-> fn, is_async |-> is_async,
                            awaited |-> awaited, node |-> node]>>
                    ELSE <<>>
    IN here \o Flatten([k \in 1..Len(node.children) |->
                          CallContexts(node.children[k], fn2, async2, awaited2)])

AllCalls == CallContexts(file.tree.root_node, None, FALSE, FALSE)

\* The call expression a call site was extracted from.
CallOf(site) ==
    LET SameRange(c) == c.start_byte = site.start_byte /\ c.end_byte = site.end_byte
    IN Head(SelectSeq(AllCalls, SameRange))

\* The root calls of requests: client.<verb>(..) on the identifier client.
IsRequestRoot(c) ==
    LET function == Unwrap(child_by_field_name(c.node, "function"))
    IN /\ function.kind = "field_expression"
       /\ Unwrap(child_by_field_name(function, "value")).kind = "identifier"
       /\ Unwrap(child_by_field_name(function, "value")).text = <<"c", "l", "i", "e", "n", "t">>
       /\ is_http_method(Unwrap(child_by_field_name(function, "field")).text)

\* The call sites emitted for the request whose root call is c: a chained
\* call starts at the byte its receiver starts at.
SitesOfRequest(c) ==
    LET SameStart(site) == site.start_byte = c.start_byte IN SelectSeq(out.val, SameStart)

\* C6: every emitted call site of a call inside a function_item carries the
\* name of that function, and a call outside every function carries None.
\* The walk never passes through the function_item arm below the root, so
\* every call site has function_name None.
C6_FunctionNameContext ==
    HttpDone =>
        \A i \in 1..Len(out.val) :
            out.val[i].function_name = CallOf(out.val[i]).function_name

\* A call inside fn f was emitted without the name of f.
C6_Witness ==
    /\ HttpDone
    /\ \E i \in 1..Len(out.val) :
          /\ CallOf(out.val[i]).function_name = Some(<<"f">>)
          /\ out.val[i].function_name = None

\* C7: in_async_function is true exactly when the function enclosing the
\* call is declared async.  It is false on every call site.
C7_InAsyncFunction ==
    HttpDone =>
        \A i \in 1..Len(out.val) :
            out.val[i].in_async_function = CallOf(out.val[i]).is_async

\* A reqwest call inside async fn f was emitted with in_async_function false.
C7_Witness ==
    /\ HttpDone
    /\ \E i \in 1..Len(out.val) :
          /\ CallOf(out.val[i]).is_async
          /\ out.val[i].client_kind = Variant("Reqwest")
          /\ ~out.val[i].in_async_function

\* C8: has_await is true exactly when the call expression is a descendant
\* of an await_expression.  It is false on every call site.
C8_HasAwait ==
    HttpDone =>
        \A i \in 1..Len(out.val) :
            out.val[i].has_await = CallOf(out.val[i]).awaited

\* An awaited call was emitted with has_await false.
C8_Witness ==
    /\ HttpDone
    /\ \E i \in 1..Len(out.val) :
          /\ CallOf(out.val[i]).awaited
          /\ ~out.val[i].has_await

\* C9: a builder chain rooted at a client call yields exactly one call site,
\* whose method_name is the HTTP verb of the root call.  Every chained call
\* whose receiver text contains "client" yields a call site of its own.
C9_OneRequestOneSite ==
    HttpDone =>
        LET Verb(c) == Unwrap(child_by_field_name(
                           Unwrap(child_by_field_name(c.node, "function")), "field")).text
            Split(c) == /\ IsRequestRoot(c)
                        /\ ~(/\ Len(SitesOfRequest(c)) = 1
                             /\ Head(SitesOfRequest(c)).method_name = Verb(c))
        IN SelectSeq(AllCalls, Split) = <<>>

\* client.get(u).timeout(..).send() was emitted as three call sites: send,
\* timeout and get.
C9_Witness ==
    /\ HttpDone
    /\ LET Three(c) == /\ IsRequestRoot(c)
                       /\ Len(SitesOfRequest(c)) = 3
                       /\ SitesOfRequest(c)[1].method_name = <<"s", "e", "n", "d">>
                       /\ SitesOfRequest(c)[2].method_name = <<"t", "i", "m", "e", "o", "u", "t">>
                       /\ SitesOfRequest(c)[3].method_name = <<"g", "e", "t">>
       IN SelectSeq(AllCalls, Three) # <<>>

\* C10: has_timeout is true exactly when call_text contains one of the four
\* timeout patterns.  A method call is tested on the text of its arguments
\* alone, which leaves out the ".timeout(" of the call itself.
C10_HasTimeoutIffCallText ==
    HttpDone =>
        \A i \in 1..Len(out.val) :
            out.val[i].has_timeout
              <=> \E k \in 1..Len(timeout_patterns) :
                     Contains(out.val[i].call_text, timeout_patterns[k])

\* The call site of client.get(u).timeout(Duration::from_secs(30)) has a
\* call_text with ".timeout(" and has_timeout false.
C10_Witness ==
    /\ HttpDone
    /\ \E i \in 1..Len(out.val) :
          /\ out.val[i].call_text = <<"c", "l", "i", "e", "n", "t", ".", "g", "e", "t", "(", "u", ")", ".", "t", "i", "m", "e", "o", "u", "t", "(", "D", "u", "r", "a", "t", "i", "o", "n", ":", ":", "f", "r", "o", "m", "_", "s", "e", "c", "s", "(", "3", "0", ")", ")">>
          /\ out.val[i].method_name = <<"t", "i", "m", "e", "o", "u", "t">>
          /\ ~out.val[i].has_timeout

\* The chained calls .timeout(Duration::from_secs(N)) and
\* .timeout(Duration::from_millis(N)) of the syntax tree.
IsDurationTimeout(c) ==
    LET function  == Unwrap(child_by_field_name(c.node, "function"))
        arguments == Unwrap(child_by_field_name(c.node, "arguments"))
    IN /\ function.kind = "field_expression"
       /\ Unwrap(child_by_field_name(function, "field")).text = <<"t", "i", "m", "e", "o", "u", "t">>
       /\ Len(arguments.children) = 3
       /\ arguments.children[2].kind = "call_expression"
       /\ Unwrap(child_by_field_name(arguments.children[2], "function")).text
            \in {<<"D", "u", "r", "a", "t", "i", "o", "n", ":", ":", "f", "r", "o", "m", "_", "s", "e", "c", "s">>, <<"D", "u", "r", "a", "t", "i", "o", "n", ":", ":", "f", "r", "o", "m", "_", "m", "i", "l", "l", "i", "s">>}

\* The f64 of the whole number written with the digits ds, and that of its
\* thousandth (ds has at most 15 digits).
WholeNumber(ds, thousandth) ==
    LET nonzero == {i \in 1..Len(ds) : ds[i] # "0"}
        first   == CHOOSE i \in nonzero : \A j \in nonzero : i <= j
        last    == CHOOSE i \in nonzero : \A j \in nonzero : j <= i
    IN IF nonzero = {} THEN F64("number", FALSE, <<>>, 0, 1)
       ELSE F64("number", FALSE, SubSeq(ds, first, last),
                Len(ds) - last - (IF thousandth THEN 3 ELSE 0), 1)

\* The timeout that call configures.
ConfiguredTimeout(c) ==
    LET duration == Unwrap(child_by_field_name(c.node, "arguments")).children[2]
        literal  == Unwrap(child_by_field_name(duration, "arguments")).children[2].text
    IN WholeNumber(literal,
                   Unwrap(child_by_field_name(duration, "function")).text
                      = <<"D", "u", "r", "a", "t", "i", "o", "n", ":", ":", "f", "r", "o", "m", "_", "m", "i", "l", "l", "i", "s">>)

\* Whether call c is chained on the root call of a request.
OnRequestChain(c) ==
    LET RootOf(r) == IsRequestRoot(r) /\ r.start_byte = c.start_byte
    IN SelectSeq(AllCalls, RootOf) # <<>>

\* C11: a request whose chain configures .timeout(Duration::from_secs(N)) or
\* .timeout(Duration::from_millis(N)) has a call site with has_timeout true
\* and timeout_value N seconds, N / 1000 seconds.  The call site of the
\* timeout call is tested on "(Duration::from_secs(N))", which holds none
\* of the timeout patterns, so no call site of the request has a timeout.
C11_ChainTimeoutReported ==
    HttpDone =>
        LET Reported(c, site) == /\ site.start_byte = c.start_byte
                                 /\ site.has_timeout
                                 /\ site.timeout_value = Some(ConfiguredTimeout(c))
            Missed(c) == LET Holds(site) == Reported(c, site)
                         IN /\ IsDurationTimeout(c)
                            /\ OnRequestChain(c)
                            /\ SelectSeq(out.val, Holds) = <<>>
        IN SelectSeq(AllCalls, Missed) = <<>>

\* client.get(u).timeout(Duration::from_secs(30)) was emitted as the call
\* sites timeout and get, both with has_timeout false and no timeout_value.
C11_Witness ==
    /\ HttpDone
    /\ file.content = <<"l", "e", "t", " ", "r", " ", "=", " ", "c", "l", "i", "e", "n", "t", ".", "g", "e", "t", "(", "u", ")", ".", "t", "i", "m", "e", "o", "u", "t", "(", "D", "u", "r", "a", "t", "i", "o", "n", ":", ":", "f", "r", "o", "m", "_", "s", "e", "c", "s", "(", "3", "0", ")", ")", ";">>
    /\ Len(out.val) = 2
    /\ \A i \in 1..2 : ~out.val[i].has_timeout /\ out.val[i].timeout_value = None
    /\ out.val[1].method_name = <<"t", "i", "m", "e", "o", "u", "t">>
    /\ out.val[2].method_name = <<"g", "e", "t">>

\* The same Duration inside the arguments of the call is extracted:
\* client.execute(req.timeout(Duration::from_secs(1500))) has a timeout of
\* 1500 seconds.
C11_ArgumentTimeoutExtracted ==
    /\ HttpDone
    /\ \E i \in 1..Len(out.val) :
          /\ out.val[i].call_text = <<"c", "l", "i", "e", "n", "t", ".", "e", "x", "e", "c", "u", "t", "e", "(", "r", "e", "q", ".", "t", "i", "m", "e", "o", "u", "t", "(", "D", "u", "r", "a", "t", "i", "o", "n", ":", ":", "f", "r", "o", "m", "_", "s", "e", "c", "s", "(", "1", "5", "0", "0", ")", ")", ")">>
          /\ out.val[i].has_timeout
          /\ out.val[i].timeout_value = Some(F64("number", FALSE, <<"1", "5">>, 2, 1))

TimeoutDone == out.op = "detect_timeout"

\* The run of decimal digits at the head of s.
RECURSIVE LeadingDigits(_)
LeadingDigits(s) ==
    IF Len(s) > 0 /\ IsDigit(Head(s)) THEN <<Head(s)>> \o LeadingDigits(Tail(s)) ELSE <<>>

\* The text after the first occurrence of pattern in s.
After(s, pattern) == SubSeq(s, StrFind(s, pattern) + Len(pattern), Len(s))

\* The text before the first ')' of s.
Literal(s) == SplitNext(s, ")")

IsWhole(ds) == Len(ds) > 0 /\ LeadingDigits(ds) = ds

\* The whole number at the head of s, when s goes on with none of the
\* characters of a longer number.
NumberAt(s) ==
    LET ds   == LeadingDigits(s)
        rest == SubSeq(s, Len(ds) + 1, Len(s))
    IN IF Len(ds) > 0 /\ (Len(rest) = 0 \/ rest[1] \notin {".", "e", "E"}) THEN ds ELSE <<>>

\* A text whose only timeout is timeout=N.
IsDirectNumber(s) ==
    /\ Contains(s, <<"t", "i", "m", "e", "o", "u", "t", "=">>)
    /\ ~Contains(s, <<"t", "i", "m", "e", "o", "u", "t", "(">>)
    /\ NumberAt(After(s, <<"t", "i", "m", "e", "o", "u", "t", "=">>)) # <<>>

\* A text whose only timeout is timeout(Duration::from_secs(N)) with no dot
\* before it.
IsBareDuration(s) ==
    /\ Contains(s, <<"t", "i", "m", "e", "o", "u", "t", "(", "D", "u", "r", "a", "t", "i", "o", "n", ":", ":", "f", "r", "o", "m", "_", "s", "e", "c", "s", "(">>)
    /\ ~Contains(s, <<".", "t", "i", "m", "e", "o", "u", "t", "(">>)
    /\ ~Contains(s, <<"t", "i", "m", "e", "o", "u", "t", "=">>)
    /\ IsWhole(Literal(After(s, <<"t", "i", "m", "e", "o", "u", "t", "(", "D", "u", "r", "a", "t", "i", "o", "n", ":", ":", "f", "r", "o", "m", "_", "s", "e", "c", "s", "(">>)))

\* C12: detect_timeout gives the timeout N for an argument text with
\* timeout=N, and for an argument text that matches only
\* timeout(Duration::from_secs(N)) without a leading dot.  After "timeout="
\* the value is looked for behind a comma only, and after
\* "timeout(Duration::from_secs" the text "(N))" starts with no Duration
\* constructor: both texts give has_timeout true with no value.
C12_DetectTimeoutValue ==
    TimeoutDone =>
        /\ IsDirectNumber(file.args_text) =>
              out.val = <<TRUE, Some(WholeNumber(NumberAt(After(file.args_text, <<"t", "i", "m", "e", "o", "u", "t", "=">>)),
                                                 FALSE))>>
        /\ IsBareDuration(file.args_text) =>
              out.val = <<TRUE, Some(WholeNumber(
                                  Literal(After(file.args_text,
                                                <<"t", "i", "m", "e", "o", "u", "t", "(", "D", "u", "r", "a", "t", "i", "o", "n", ":", ":", "f", "r", "o", "m", "_", "s", "e", "c", "s", "(">>)),
                                  FALSE))>>

\* detect_timeout("timeout=30") is (true, None).
C12_Witness ==
    /\ TimeoutDone
    /\ file.args_text = <<"t", "i", "m", "e", "o", "u", "t", "=", "3", "0">>
    /\ out.val = <<TRUE, None>>

\* detect_timeout("timeout(Duration::from_secs(30))") is (true, None).
C12_BareDurationWitness ==
    /\ TimeoutDone
    /\ file.args_text = <<"t", "i", "m", "e", "o", "u", "t", "(", "D", "u", "r", "a", "t", "i", "o", "n", ":", ":", "f", "r", "o", "m", "_", "s", "e", "c", "s", "(", "3", "0", ")", ")">>
    /\ out.val = <<TRUE, None>>

\* What str::parse::<f64> gives for the texts that are no whole number.
ParsedNumberTexts ==
    {<<<<"1", ".", "5">>, Some(F64("number", FALSE, <<"1", "5">>, -1, 1))>>,
     <<<<".", "5">>, Some(F64("number", FALSE, <<"5">>, -1, 1))>>,
     <<<<"5", ".">>, Some(F64("number", FALSE, <<"5">>, 0, 1))>>,
     <<<<"3", "3", ".", "3">>, Some(F64("number", FALSE, <<"3", "3", "3">>, -1, 1))>>,
     <<<<"1", "e", "2", "3">>, Some(F64("number", FALSE, <<"1">>, 23, 1))>>,
     <<<<"1", "e", "3">>, Some(F64("number", FALSE, <<"1">>, 3, 1))>>,
     <<<<"1", "5", "E", "-", "1">>, Some(F64("number", FALSE, <<"1", "5">>, -1, 1))>>,
     <<<<"+", "5">>, Some(F64("number", FALSE, <<"5">>, 0, 1))>>,
     <<<<"-", "0">>, Some(F64("number", TRUE, <<>>, 0, 1))>>,
     <<<<"i", "n", "f">>, Some(F64("infinity", FALSE, <<>>, 0, 1))>>,
     <<<<"-", "I", "n", "f", "i", "n", "i", "t", "y">>, Some(F64("infinity", TRUE, <<>>, 0, 1))>>,
     <<<<"N", "a", "N">>, Some(F64("nan", FALSE, <<>>, 0, 1))>>,
     <<<<"1", "e">>, None>>,
     <<<<".">>, None>>,
     <<<<"5", " ">>, None>>}

\* What parsing followed by ms / 1000.0 gives for the same texts: the f64
\* of 1.5, of .5, of 33.3 and of 1e23 divided by 1000.0 (0.0015, 0.0005,
\* 0.033299999999999996 and 9.999999999999998e19), the thousandth of 5 and
\* of 1000, the special values and the zero unchanged.
ParsedMillisTexts ==
    {<<<<"1", ".", "5">>, Some(F64("number", FALSE, <<"1", "5">>, -1, 1000))>>,
     <<<<".", "5">>, Some(F64("number", FALSE, <<"5">>, -1, 1000))>>,
     <<<<"5", ".">>, Some(F64("number", FALSE, <<"5">>, -3, 1))>>,
     <<<<"3", "3", ".", "3">>, Some(F64("number", FALSE, <<"3", "3", "3">>, -1, 1000))>>,
     <<<<"1", "e", "2", "3">>, Some(F64("number", FALSE, <<"1">>, 23, 1000))>>,
     <<<<"1", "e", "3">>, Some(F64("number", FALSE, <<"1">>, 0, 1))>>,
     <<<<"1", "5", "E", "-", "1">>, Some(F64("number", FALSE, <<"1", "5">>, -1, 1000))>>,
     <<<<"+", "5">>, Some(F64("number", FALSE, <<"5">>, -3, 1))>>,
     <<<<"-", "0">>, Some(F64("number", TRUE, <<>>, 0, 1))>>,
     <<<<"i", "n", "f">>, Some(F64("infinity", FALSE, <<>>, 0, 1))>>,
     <<<<"-", "I", "n", "f", "i", "n", "i", "t", "y">>, Some(F64("infinity", TRUE, <<>>, 0, 1))>>,
     <<<<"N", "a", "N">>, Some(F64("nan", FALSE, <<>>, 0, 1))>>,
     <<<<"1", "e">>, None>>,
     <<<<".">>, None>>,
     <<<<"5", " ">>, None>>}

\* The f64 of the text l: a whole number, or a text of the table.
Expected(l, table, thousandth) ==
    IF IsWhole(l) THEN Some(WholeNumber(l, thousandth))
    ELSE IF \E p \in table : p[1] = l THEN (CHOOSE p \in table : p[1] = l)[2]
    ELSE None

\* The values detect_timeout does extract: a Duration right after
\* ".timeout(" or "timeout=", and a number between "timeout=," and a
\* closing parenthesis, with white space around it or not.
C12_ExtractedForms ==
    TimeoutDone =>
        LET s == file.args_text
            AfterDot   == After(s, <<".", "t", "i", "m", "e", "o", "u", "t", "(">>)
            AfterEq    == After(s, <<"t", "i", "m", "e", "o", "u", "t", "=">>)
            AfterComma == Trim(SplitNext(After(s, <<"t", "i", "m", "e", "o", "u", "t", "=", ",">>), ","))
        IN /\ Contains(s, <<".", "t", "i", "m", "e", "o", "u", "t", "(">>) /\ StartsWith(AfterDot, <<"D", "u", "r", "a", "t", "i", "o", "n", ":", ":", "f", "r", "o", "m", "_", "s", "e", "c", "s", "(">>)
              => out.val = <<TRUE, Expected(Literal(After(s, <<"f", "r", "o", "m", "_", "s", "e", "c", "s", "(">>)),
                                            ParsedNumberTexts, FALSE)>>
           /\ Contains(s, <<".", "t", "i", "m", "e", "o", "u", "t", "(">>) /\ StartsWith(AfterDot, <<"D", "u", "r", "a", "t", "i", "o", "n", ":", ":", "f", "r", "o", "m", "_", "m", "i", "l", "l", "i", "s", "(">>)
              => out.val = <<TRUE, Expected(Literal(After(s, <<"f", "r", "o", "m", "_", "m", "i", "l", "l", "i", "s", "(">>)),
                                            ParsedMillisTexts, TRUE)>>
           /\ ~Contains(s, <<".", "t", "i", "m", "e", "o", "u", "t", "(">>) /\ ~Contains(s, <<"t", "i", "m", "e", "o", "u", "t", "(", "D", "u", "r", "a", "t", "i", "o", "n", ":", ":", "f", "r", "o", "m", "_">>)
                /\ Contains(s, <<"t", "i", "m", "e", "o", "u", "t", "=", ",">>) /\ Contains(AfterComma, <<")">>)
              => out.val = <<TRUE, Expected(Literal(AfterComma), ParsedNumberTexts, FALSE)>>
           /\ IsDirectNumber(s) => out.val = <<TRUE, None>>
           /\ IsBareDuration(s) => out.val = <<TRUE, None>>

\* detect_timeout("(u, timeout=,\t1.5)") is (true, Some(1.5)).
C12_ParsedWitness ==
    /\ TimeoutDone
    /\ file.args_text = <<"(", "u", ",", " ", "t", "i", "m", "e", "o", "u", "t", "=", ",", "\t", "1", ".", "5", ")">>
    /\ out.val = <<TRUE, Some(F64("number", FALSE, <<"1", "5">>, -1, 1))>>

\* The text of the callee of call c.
CalleeText(c) == Unwrap(child_by_field_name(c.node, "function")).text

\* The call sites emitted for call c.
SitesOfCall(c) ==
    LET SameRange(site) == site.start_byte = c.start_byte /\ site.end_byte = c.end_byte
    IN SelectSeq(out.val, SameRange)

\* The path calls prefix<m>(..) with m an HTTP method name.
IsPathCall(c, prefix) ==
    /\ Unwrap(child_by_field_name(c.node, "function")).kind \in PathKinds
    /\ StartsWith(CalleeText(c), prefix)
    /\ is_http_method(Unwrap(StripPrefix(CalleeText(c), prefix)))

\* C13: a path call reqwest::blocking::<m>(..) with m an HTTP method name
\* yields one call site, of kind ReqwestBlocking, whose method_name is m.
\* extract_method_from_blocking_call tests the text before the last "::",
\* which is "reqwest::blocking", and falls back to the whole path.
C13_BlockingMethodName ==
    HttpDone =>
        LET Wrong(c) == /\ IsPathCall(c, <<"r", "e", "q", "w", "e", "s", "t", ":", ":", "b", "l", "o", "c", "k", "i", "n", "g", ":", ":">>)
                        /\ ~(/\ Len(SitesOfCall(c)) = 1
                             /\ Head(SitesOfCall(c)).client_kind = Variant("ReqwestBlocking")
                             /\ Head(SitesOfCall(c)).method_name
                                  = Unwrap(StripPrefix(CalleeText(c), <<"r", "e", "q", "w", "e", "s", "t", ":", ":", "b", "l", "o", "c", "k", "i", "n", "g", ":", ":">>)))
        IN SelectSeq(AllCalls, Wrong) = <<>>

\* reqwest::blocking::get(u) was emitted with the method_name
\* "reqwest::blocking::get".
C13_Witness ==
    /\ HttpDone
    /\ LET Whole(c) == /\ IsPathCall(c, <<"r", "e", "q", "w", "e", "s", "t", ":", ":", "b", "l", "o", "c", "k", "i", "n", "g", ":", ":">>)
                       /\ Len(SitesOfCall(c)) = 1
                       /\ Head(SitesOfCall(c)).client_kind = Variant("ReqwestBlocking")
                       /\ Head(SitesOfCall(c)).call_text = <<"r", "e", "q", "w", "e", "s", "t", ":", ":", "b", "l", "o", "c", "k", "i", "n", "g", ":", ":", "g", "e", "t", "(", "u", ")">>
                       /\ Head(SitesOfCall(c)).method_name = <<"r", "e", "q", "w", "e", "s", "t", ":", ":", "b", "l", "o", "c", "k", "i", "n", "g", ":", ":", "g", "e", "t">>
       IN SelectSeq(AllCalls, Whole) # <<>>

\* No emitted call site of kind ReqwestBlocking has an HTTP method name.
C13_MethodNameIsWholePath ==
    HttpDone =>
        \A i \in 1..Len(out.val) :
            out.val[i].client_kind = Variant("ReqwestBlocking")
              => /\ ~is_http_method(out.val[i].method_name)
                 /\ StartsWith(out.val[i].method_name, <<"r", "e", "q", "w", "e", "s", "t", ":", ":", "b", "l", "o", "c", "k", "i", "n", "g", ":", ":">>)
                 /\ StartsWith(out.val[i].call_text, out.val[i].method_name \o <<"(">>)

\* The path calls ureq::<m>(..), whatever m is.
IsUreqCall(c) ==
    /\ Unwrap(child_by_field_name(c.node, "function")).kind \in PathKinds
    /\ StartsWith(CalleeText(c), <<"u", "r", "e", "q", ":", ":">>)

\* What C14 asks of the path call c.
UreqCallAsClaimed(c) ==
    LET m == Unwrap(StripPrefix(CalleeText(c), <<"u", "r", "e", "q", ":", ":">>))
    IN IF is_http_method(m)
       THEN /\ Len(SitesOfCall(c)) = 1
            /\ Head(SitesOfCall(c)).client_kind = Variant("Ureq")
            /\ Head(SitesOfCall(c)).method_name = m
            /\ ~Head(SitesOfCall(c)).in_async_function
       ELSE SitesOfCall(c) = <<>>

\* C14: a path call ureq::<m>(..) yields exactly one call site, of kind
\* Ureq, with method_name m and in_async_function false, when m is an HTTP
\* method name, and no call site for any other m.  The arm that emits the
\* site is entered for a callee of kind path_expression only: a callee the
\* parser reports as scoped_identifier yields no call site.
C14_UreqPathCall ==
    HttpDone =>
        LET Wrong(c) == IsUreqCall(c) /\ ~UreqCallAsClaimed(c)
        IN SelectSeq(AllCalls, Wrong) = <<>>

\* ureq::get(u) with a callee of kind scoped_identifier yields no call site.
C14_Witness ==
    /\ HttpDone
    /\ file.content = <<"l", "e", "t", " ", "r", " ", "=", " ", "u", "r", "e", "q", ":", ":", "g", "e", "t", "(", "u", ")", ";">>
    /\ LET Get(c) == IsUreqCall(c) /\ CalleeText(c) = <<"u", "r", "e", "q", ":", ":", "g", "e", "t">>
                        /\ Unwrap(child_by_field_name(c.node, "function")).kind
                             = "scoped_identifier"
       IN SelectSeq(AllCalls, Get) # <<>>
    /\ out.val = <<>>

\* With a callee of kind path_expression the call sites are as claimed.
C14_PathExpressionCallee ==
    HttpDone =>
        LET Wrong(c) == /\ IsUreqCall(c)
                        /\ Unwrap(child_by_field_name(c.node, "function")).kind
                             = "path_expression"
                        /\ ~UreqCallAsClaimed(c)
        IN SelectSeq(AllCalls, Wrong) = <<>>

\* ureq::get(u) in an async fn, callee of kind path_expression: one site of
\* kind Ureq with method_name get and in_async_function false.
C14_PathExpressionWitness ==
    /\ HttpDone
    /\ file.content = <<"a", "s", "y", "n", "c", " ", "f", "n", " ", "f", "(", ")", " ", "{", " ", "u", "r", "e", "q", ":", ":", "g", "e", "t", "(", "u", ")", ";", " ", "}">>
    /\ Len(out.val) = 1
    /\ out.val[1].client_kind = Variant("Ureq")
    /\ out.val[1].method_name = <<"g", "e", "t">>
    /\ ~out.val[1].in_async_function

(***************************************************************************)
(* What the claims about the normalizers are stated over.                  *)
(***************************************************************************)
\* The method name of the i-th HTTP extractor record of the file.
ExtractorMethodName(i) ==
    IF sem.lang = "Typescript" THEN sem.http_calls[i].method ELSE sem.http_calls[i].method_name

\* The five verbs of HttpMethod with their names.
HttpVerbs ==
    {<<<<"G", "E", "T">>, Variant("Get")>>, <<<<"P", "O", "S", "T">>, Variant("Post")>>, <<<<"P", "U", "T">>, Variant("Put")>>,
     <<<<"P", "A", "T", "C", "H">>, Variant("Patch")>>, <<<<"D", "E", "L", "E", "T", "E">>, Variant("Delete")>>}

\* The languages whose http_calls() canonicalizes a method name.
HttpCallsOfNames == out.op = "http_calls" /\ sem.lang \in {"Python", "Go", "Typescript"}

\* C15 as stated: the method is one of the five verbs exactly when the
\* extractor's method name is that verb in some letter case, and every other
\* name s is carried as Other(s).
C15_MethodCanonicalAsStated ==
    HttpCallsOfNames =>
        /\ Len(out.val) = Len(sem.http_calls)
        /\ \A i \in 1..Len(out.val) :
              /\ \A v \in HttpVerbs :
                    out.val[i].method = v[2] <=> ToUppercase(ExtractorMethodName(i)) = v[1]
              /\ (\A v \in HttpVerbs : ToUppercase(ExtractorMethodName(i)) # v[1])
                    => out.val[i].method = Other(ExtractorMethodName(i))

\* C15: the method is one of the five verbs when the extractor's method
\* name is that verb in some letter case, it is Get for the TypeScript name
\* fetch in some letter case, and every other name s is carried as Other of
\* s in upper case.
C15_MethodCanonical ==
    HttpCallsOfNames =>
        /\ Len(out.val) = Len(sem.http_calls)
        /\ \A i \in 1..Len(out.val) :
              LET upper   == ToUppercase(ExtractorMethodName(i))
                  IsFetch == sem.lang = "Typescript" /\ upper = <<"F", "E", "T", "C", "H">>
              IN /\ \A v \in HttpVerbs : upper = v[1] => out.val[i].method = v[2]
                 /\ IsFetch => out.val[i].method = Variant("Get")
                 /\ (~IsFetch /\ \A v \in HttpVerbs : upper # v[1])
                       => out.val[i].method = Other(upper)

\* A TypeScript file with the calls fetch and options: the first has the
\* method Get, the second Other("OPTIONS").
C15_Witness ==
    /\ out.op = "http_calls"
    /\ sem.lang = "Typescript"
    /\ Len(out.val) = 2
    /\ sem.http_calls[1].method = <<"f", "e", "t", "c", "h">>
    /\ out.val[1].method = Variant("Get")
    /\ sem.http_calls[2].method = <<"o", "p", "t", "i", "o", "n", "s">>
    /\ out.val[2].method = Other(<<"O", "P", "T", "I", "O", "N", "S">>)

\* The extractor records behind out.val, in the order of out.val.
InputRecords ==
    LET Kept(ch) == ch.kind # "Close"
        MethodsOf(owners) == Flatten([k \in 1..Len(owners) |-> owners[k].methods])
    IN CASE out.op = "http_calls" -> sem.http_calls
         [] out.op = "db_operations" ->
              IF sem.lang = "Python" THEN sem.orm_queries ELSE sem.db_operations
         [] out.op = "async_operations" ->
              CASE sem.lang = "Go" ->
                     sem.goroutines \o SelectSeq(sem.channel_ops, Kept)
                       \o sem.select_statements \o sem.mutex_operations \o sem.defers
                [] sem.lang = "Rust" -> sem.async_info.spawn_calls
                [] OTHER -> sem.async_operations
         [] out.op = "imports" -> IF sem.lang = "Rust" THEN sem.uses ELSE sem.imports
         [] out.op = "functions" ->
              CASE sem.lang = "Python" -> sem.functions
                [] sem.lang = "Go" -> sem.functions \o sem.methods
                [] sem.lang = "Rust" -> sem.functions \o MethodsOf(sem.impls)
                [] OTHER -> sem.functions \o MethodsOf(sem.classes)

\* The categories whose extractor records hold a line and a column instead
\* of a parser range.
StoredLocation ==
    \/ out.op = "db_operations" /\ sem.lang # "Python"
    \/ out.op = "http_calls" /\ sem.lang = "Rust"

NormDone == out.op \in {"http_calls", "db_operations", "async_operations", "imports", "functions"}

\* Line and column of every record of out.val.
ProducedPositions == [i \in 1..Len(out.val) |-> <<out.val[i].location.line, out.val[i].location.column>>]

\* C16: every location produced by normalization has line = parser row + 1
\* and column = parser column + 1, hence both at least 1, in the five
\* categories of all four languages.  A record that holds a parser range is
\* converted with + 1.  A record that stores a Location (DB operations of
\* Go, Rust and TypeScript, HTTP calls of Rust) keeps the line and column it
\* stores; the i-th such record sits on parser row i - 1, column 0.
C16_LocationOneBased ==
    NormDone =>
        /\ Len(out.val) = Len(InputRecords)
        /\ \A i \in 1..Len(out.val) :
              /\ ProducedPositions[i] =
                    IF StoredLocation THEN <<i, 1>>
                    ELSE <<InputRecords[i].location.range.start_line + 1,
                           InputRecords[i].location.range.start_col + 1>>
              /\ StoredLocation =>
                    ProducedPositions[i] = <<InputRecords[i].location.line,
                                             InputRecords[i].location.column>>
              /\ ProducedPositions[i][1] >= 1
              /\ ProducedPositions[i][2] >= 1

\* A Python file with two functions on the rows 0 and 1: functions()
\* returns the lines 1 and 2, column 1.
C16_Witness ==
    /\ out.op = "functions"
    /\ sem.lang = "Python"
    /\ Len(out.val) = 2
    /\ sem.functions[2].location.range = [start_line |-> 1, start_col |-> 0]
    /\ ProducedPositions = << <<1, 1>>, <<2, 1>> >>

\* A Go file with two DB operations whose records store the lines 1 and 2
\* and the column 1: db_operations() returns them unchanged.
C16_StoredWitness ==
    /\ out.op = "db_operations"
    /\ sem.lang = "Go"
    /\ Len(out.val) = 2
    /\ sem.db_operations[2].location.line = 2
    /\ ProducedPositions = << <<1, 1>>, <<2, 1>> >>

GoImportsDone == out.op = "imports" /\ sem.lang = "Go"

\* C17: a Go import whose path starts with '.' or '/' is Local, another one
\* whose path starts with github.com or golang.org or contains '.' is
\* External, every other one is StandardLib.  convert_go_import tests for
\* External first, so a path that starts with '.' contains '.' and is
\* External.
C17_GoImportSource ==
    GoImportsDone =>
        /\ Len(out.val) = Len(sem.imports)
        /\ \A i \in 1..Len(out.val) :
              LET path == sem.imports[i].path
              IN out.val[i].source =
                    IF StartsWith(path, <<".">>) \/ StartsWith(path, <<"/">>) THEN "Local"
                    ELSE IF \/ StartsWith(path, <<"g", "i", "t", "h", "u", "b", ".", "c", "o", "m">>)
                            \/ StartsWith(path, <<"g", "o", "l", "a", "n", "g", ".", "o", "r", "g">>)
                            \/ Contains(path, <<".">>)
                         THEN "External"
                         ELSE "StandardLib"

\* The Go import "./util" was classified External.
C17_Witness ==
    /\ GoImportsDone
    /\ Len(out.val) = 1
    /\ sem.imports[1].path = <<".", "/", "u", "t", "i", "l">>
    /\ out.val[1].module_path = <<".", "/", "u", "t", "i", "l">>
    /\ out.val[1].source = "External"

\* Every Go import has one of the three sources; it is Local only when its
\* path starts with '/' and holds no '.', and no path that starts with '.'
\* is Local.
C17_LocalOnlyForSlash ==
    GoImportsDone =>
        \A i \in 1..Len(out.val) :
            /\ out.val[i].source \in {"StandardLib", "External", "Local"}
            /\ out.val[i].source = "Local"
                 <=> /\ StartsWith(out.val[i].module_path, <<"/">>)
                     /\ ~Contains(out.val[i].module_path, <<".">>)
            /\ StartsWith(out.val[i].module_path, <<".">>) => out.val[i].source = "External"

ImportsDone == out.op = "imports"

\* C18: every import of style Star has no items.  convert_rust_use and
\* convert_ts_import build the items from the extractor's list whatever the
\* style is, so a glob use or a namespace import whose record lists names
\* is a Star import with items.
C18_StarHasNoItems ==
    ImportsDone =>
        \A i \in 1..Len(out.val) : out.val[i].style = "Star" => out.val[i].items = <<>>

\* A Rust glob use whose record lists the name X became a Star import with
\* the item X.
C18_Witness ==
    /\ ImportsDone
    /\ sem.lang = "Rust"
    /\ Len(out.val) = 1
    /\ sem.uses[1].is_glob
    /\ sem.uses[1].items = <<<<"X">>>>
    /\ out.val[1].style = "Star"
    /\ out.val[1].items = <<ImportedItem(<<"X">>)>>

\* The items of an import are the names of its extractor record, whatever
\* the style; Go imports have none.
C18_ItemsCopied ==
    ImportsDone =>
        /\ Len(out.val) = Len(InputRecords)
        /\ \A i \in 1..Len(out.val) :
              Len(out.val[i].items) =
                 CASE sem.lang = "Python" -> Len(InputRecords[i].names)
                   [] sem.lang = "Go" -> 0
                   [] sem.lang = "Rust" -> Len(InputRecords[i].items)
                   [] sem.lang = "Typescript" -> Len(InputRecords[i].named_imports)

\* C19: every import of style Named has at least one item.  A Python
\* from-import is Named whatever names its record lists.
C19_NamedHasItems ==
    ImportsDone =>
        \A i \in 1..Len(out.val) : out.val[i].style = "Named" => out.val[i].items # <<>>

\* A Python from-import whose record lists no name became a Named import
\* without items.
C19_Witness ==
    /\ ImportsDone
    /\ sem.lang = "Python"
    /\ Len(out.val) = 1
    /\ sem.imports[1].style = "FromImport"
    /\ sem.imports[1].names = <<>>
    /\ out.val[1].style = "Named"
    /\ out.val[1].items = <<>>

\* Outside Python a Named import has an item: the style is Named only when
\* the list of names is not empty.
C19_NamedHasItemsOutsidePython ==
    ImportsDone /\ sem.lang # "Python" =>
        \A i \in 1..Len(out.val) : out.val[i].style = "Named" => out.val[i].items # <<>>

\* The module path of an import record of the language.
ExtractorModulePath(r) ==
    CASE sem.lang \in {"Python", "Typescript"} -> r.module
      [] sem.lang \in {"Go", "Rust"} -> r.path

\* C20: every Import returned by imports() has one of the three sources, one
\* of the five styles and a module path with at least one character.  The
\* converters copy the module or path of the record without looking at it,
\* so a record with an empty path gives an Import with an empty module path.
C20_ImportTotality ==
    ImportsDone =>
        /\ Len(out.val) = Len(InputRecords)
        /\ \A i \in 1..Len(out.val) :
              /\ out.val[i].source \in {"StandardLib", "External", "Local"}
              /\ out.val[i].style \in {"Module", "Named", "Star", "Default", "SideEffect"}
              /\ Len(out.val[i].module_path) > 0

\* The Go import "" became a StandardLib import of style Module whose module
\* path has no character.
C20_Witness ==
    /\ ImportsDone
    /\ sem.lang = "Go"
    /\ Len(out.val) = 1
    /\ sem.imports[1].path = <<>>
    /\ out.val[1].style = "Module"
    /\ out.val[1].source = "StandardLib"
    /\ out.val[1].module_path = <<>>

\* Every import record yields one Import, which has one of the three sources,
\* one of the five styles and the module path of the record, empty or not.
C20_ModulePathCopied ==
    ImportsDone =>
        /\ Len(out.val) = Len(InputRecords)
        /\ \A i \in 1..Len(out.val) :
              /\ out.val[i].source \in {"StandardLib", "External", "Local"}
              /\ out.val[i].style \in {"Module", "Named", "Star", "Default", "SideEffect"}
              /\ out.val[i].module_path = ExtractorModulePath(InputRecords[i])

\* The DB library names each language's db_operations() recognises.
RecognisedDbLibraries ==
    CASE sem.lang = "Go" -> {<<"d", "a", "t", "a", "b", "a", "s", "e", "/", "s", "q", "l">>, <<"G", "O", "R", "M">>, <<"s", "q", "l", "x">>, <<"s", "q", "l", "c">>}
      [] sem.lang = "Rust" -> {<<"D", "i", "e", "s", "e", "l">>, <<"S", "e", "a", "O", "R", "M">>, <<"s", "q", "l", "x">>, <<"t", "o", "k", "i", "o", "-", "p", "o", "s", "t", "g", "r", "e", "s">>}
      [] sem.lang = "Typescript" -> {<<"P", "r", "i", "s", "m", "a">>, <<"T", "y", "p", "e", "O", "R", "M">>, <<"K", "n", "e", "x">>, <<"S", "e", "q", "u", "e", "l", "i", "z", "e">>, <<"D", "r", "i", "z", "z", "l", "e", " ", "O", "R", "M">>}
      [] OTHER -> {}

\* Whether the library of extractor record r has no variant of its own in
\* HttpClientLibrary or DbLibrary.
IsUnknownLibrary(r) ==
    CASE out.op = "http_calls" /\ sem.lang = "Python" -> r.client_kind.tag = "Other"
      [] out.op = "http_calls" /\ sem.lang = "Go" -> r.client_kind.tag # "NetHttp"
      [] out.op = "http_calls" /\ sem.lang = "Typescript" ->
           r.client_kind \notin {"Fetch", "Axios", "Got"}
      [] out.op = "http_calls" /\ sem.lang = "Rust" -> r.library.tag = "Other"
      [] out.op = "db_operations" /\ sem.lang = "Python" -> r.orm_kind \in {"SqlModel", "Unknown"}
      [] OTHER -> r.library \notin RecognisedDbLibraries

\* Whether the extractor record r names its library with a text.
HasLibraryName(r) ==
    \/ out.op = "http_calls" /\ sem.lang \in {"Python", "Go"} /\ r.client_kind.tag = "Other"
    \/ out.op = "http_calls" /\ sem.lang = "Rust" /\ r.library.tag = "Other"
    \/ out.op = "db_operations" /\ sem.lang # "Python"

ExtractorLibraryName(r) ==
    CASE out.op = "http_calls" /\ sem.lang \in {"Python", "Go"} -> r.client_kind.name
      [] out.op = "http_calls" /\ sem.lang = "Rust" -> r.library.name
      [] OTHER -> r.library

\* C21: every HTTP and DB extractor record is emitted, and one whose library
\* has no variant of its own is Other(name): name is the extractor's library
\* name, unchanged, when the record names the library with a text, and the
\* fixed label of the extractor's kind when it does not.  A library with a
\* variant of its own is never Other.
C21_UnknownLibraryCarried ==
    out.op \in {"http_calls", "db_operations"} =>
        /\ Len(out.val) = Len(InputRecords)
        /\ \A i \in 1..Len(out.val) :
              /\ IsUnknownLibrary(InputRecords[i]) <=> out.val[i].library.tag = "Other"
              /\ IsUnknownLibrary(InputRecords[i]) => out.val[i].library.name # <<>>
              /\ IsUnknownLibrary(InputRecords[i]) /\ HasLibraryName(InputRecords[i])
                   => out.val[i].library = Other(ExtractorLibraryName(InputRecords[i]))

\* A Rust file with DB operations of Diesel and of rusqlite: the second is
\* emitted with the library Other("rusqlite").
C21_Witness ==
    /\ out.op = "db_operations"
    /\ sem.lang = "Rust"
    /\ Len(out.val) = 2
    /\ sem.db_operations[1].library = <<"D", "i", "e", "s", "e", "l">>
    /\ sem.db_operations[2].library = <<"r", "u", "s", "q", "l", "i", "t", "e">>
    /\ out.val[1].library = Variant("Diesel")
    /\ out.val[2].library = Other(<<"r", "u", "s", "q", "l", "i", "t", "e">>)

(***************************************************************************)
(* Function attributes: a file holding one function or one method, whose   *)
(* name and recorded attributes are drawn from the sets below.             *)
(***************************************************************************)
AttrNames ==
    {<<"f">>, <<"R", "u", "n">>, <<"_">>, <<"_", "_">>, <<"_", "p">>, <<"_", "_", "x">>, <<"x", "_", "_">>, <<"_", "_", "i", "n", "i", "t", "_", "_">>, <<"_", "p", "_", "_">>,
     <<"U+00D6", "l", "U+00E7", "U+00FC">>, <<"U+00E7", "a">>}

RustVisibilities == {"Pub", "PubCrate", "PubSuper", "PubIn", "Private"}

\* The attribute records that differ in a field the language's extractor
\* record has.
AttrsOf(lang, is_method) ==
    {a \in [is_async : BOOLEAN, visibility : RustVisibilities, is_exported : BOOLEAN,
            is_generator : BOOLEAN, is_private : BOOLEAN, is_protected : BOOLEAN] :
       /\ lang = "Go" => a.is_async = PlainAttrs.is_async
       /\ lang # "Rust" => a.visibility = PlainAttrs.visibility
       /\ ~(lang = "Typescript" /\ ~is_method) =>
             a.is_exported = PlainAttrs.is_exported /\ a.is_generator = PlainAttrs.is_generator
       /\ ~(lang = "Typescript" /\ is_method) =>
             a.is_private = PlainAttrs.is_private /\ a.is_protected = PlainAttrs.is_protected}

AttrSem(lang, is_method, name, a) ==
    LET rec == FnRecordWith(lang, 1, [start_byte |-> 0, end_byte |-> 1], is_method, name, a)
    IN [EmptySem(lang) EXCEPT
          !.functions = IF lang = "Python" \/ ~is_method THEN <<rec>> ELSE <<>>,
          !.methods   = IF lang = "Go" /\ is_method THEN <<rec>> ELSE <<>>,
          !.impls     = IF lang = "Rust" /\ is_method THEN <<[methods |-> <<rec>>]>> ELSE <<>>,
          !.classes   = IF lang = "Typescript" /\ is_method
                        THEN <<[name |-> Server, methods |-> <<rec>>]>> ELSE <<>>]

InitFn ==
    /\ \E lang \in Langs, is_method \in BOOLEAN, name \in AttrNames :
         \E a \in AttrsOf(lang, is_method) :
            sem = AttrSem(lang, is_method, name, a)
    /\ out = NoOut
    /\ file = <<>>

NextFn == Functions

SpecFn == InitFn /\ [][NextFn]_vars

IsDunder(name) == StartsWith(name, <<"_", "_">>) /\ EndsWith(name, <<"_", "_">>)

\* C22: a normalized Python function is Private exactly when its name starts
\* with an underscore and is not a dunder name (one that starts and ends
\* with two underscores); every other function is Public; and is_async is
\* the extractor's is_async.
C22_PythonVisibility ==
    out.op = "functions" /\ sem.lang = "Python" =>
        /\ Len(out.val) = Len(sem.functions)
        /\ \A i \in 1..Len(out.val) :
              /\ out.val[i].visibility \in {"Private", "Public"}
              /\ out.val[i].visibility = "Private"
                   <=> /\ StartsWith(sem.functions[i].name, <<"_">>)
                       /\ ~IsDunder(sem.functions[i].name)
              /\ out.val[i].is_async = sem.functions[i].is_async

\* An asynchronous dunder method was normalized as Public.
C22_Witness ==
    /\ out.op = "functions" /\ sem.lang = "Python" /\ Len(out.val) = 1
    /\ sem.functions[1].name = <<"_", "_", "i", "n", "i", "t", "_", "_">>
    /\ sem.functions[1].is_async
    /\ out.val[1].visibility = "Public"
    /\ out.val[1].is_async


\* The methods the extractors found: Go methods, the methods of the Rust impl
\* blocks, the methods of the TypeScript classes.
MethodRecords ==
    sem.methods
       \o Flatten([i \in 1..Len(sem.impls) |-> sem.impls[i].methods])
       \o Flatten([i \in 1..Len(sem.classes) |-> sem.classes[i].methods])

\* FunctionDef d was built from the extractor record r.
BuiltFrom(d, r) ==
    /\ d.name = r.name
    /\ d.start_byte = r.start_byte
    /\ d.end_byte = r.end_byte
    /\ d.location.line = r.location.range.start_line + 1

\* C23: functions() returns one FunctionDef per free function followed by
\* one per method, in extractor order and with nothing filtered out: its
\* length is the number of functions plus the number of methods.
C23_FunctionsThenMethods ==
    out.op = "functions" =>
        /\ Len(out.val) = Len(sem.functions) + Len(MethodRecords)
        /\ \A i \in 1..Len(sem.functions) : BuiltFrom(out.val[i], sem.functions[i])
        /\ \A j \in 1..Len(MethodRecords) :
              BuiltFrom(out.val[Len(sem.functions) + j], MethodRecords[j])

\* A Go file with one free function and two methods gave three FunctionDefs,
\* the function first.
C23_Witness ==
    /\ out.op = "functions" /\ sem.lang = "Go"
    /\ Len(sem.functions) = 1 /\ Len(sem.methods) = 2
    /\ Len(out.val) = 3
    /\ out.val[1].kind = "Function" /\ out.val[1].name = sem.functions[1].name
    /\ out.val[2].kind = "Method" /\ out.val[2].name = sem.methods[1].name
    /\ out.val[3].kind = "Method" /\ out.val[3].name = sem.methods[2].name


(***************************************************************************)
(* Client detection: detect_client_kind applied to the receiver text and   *)
(* the callee text of a method call receiver.field(..), as the method arm  *)
(* of extract_http_call passes them.                                       *)
(***************************************************************************)
Receivers ==
    {<<"u", "r", "e", "q">>, <<"u", "r", "e", "q", ":", ":", "a", "g", "e", "n", "t", "(", ")">>, <<"u", "r", "e", "q", ":", ":", "c", "l", "i", "e", "n", "t", "(", ")">>, <<"u", "r", "e", "q", ":", ":", "b", "u", "i", "l", "d", "e", "r", "(", ")", ".", "c", "l", "i", "e", "n", "t">>,
     <<"h", "y", "p", "e", "r">>, <<"h", "y", "p", "e", "r", ":", ":", "C", "l", "i", "e", "n", "t", ":", ":", "n", "e", "w", "(", ")">>, <<"h", "y", "p", "e", "r", ":", ":", "c", "l", "i", "e", "n", "t", ":", ":", "C", "l", "i", "e", "n", "t", ":", ":", "n", "e", "w", "(", ")">>,
     <<"s", "u", "r", "f">>, <<"s", "u", "r", "f", ":", ":", "c", "l", "i", "e", "n", "t", "(", ")">>, <<"s", "u", "r", "f", ":", ":", "C", "l", "i", "e", "n", "t", ":", ":", "n", "e", "w", "(", ")">>,
     <<"a", "w", "c">>, <<"a", "w", "c", ":", ":", "C", "l", "i", "e", "n", "t", ":", ":", "n", "e", "w", "(", ")">>, <<"a", "w", "c", ":", ":", "c", "l", "i", "e", "n", "t", "(", ")">>,
     <<"i", "s", "a", "h", "c">>, <<"i", "s", "a", "h", "c", ":", ":", "H", "t", "t", "p", "C", "l", "i", "e", "n", "t", ":", ":", "n", "e", "w", "(", ")">>, <<"i", "s", "a", "h", "c", ":", ":", "c", "l", "i", "e", "n", "t", "(", ")">>,
     <<"c", "l", "i", "e", "n", "t">>, <<"s", "e", "l", "f", ".", "c", "l", "i", "e", "n", "t">>, <<"r", "e", "q", "w", "e", "s", "t">>, <<"r", "e", "q", "w", "e", "s", "t", ":", ":", "C", "l", "i", "e", "n", "t", ":", ":", "n", "e", "w", "(", ")">>,
     <<"r", "e", "q", "w", "e", "s", "t", ":", ":", "b", "l", "o", "c", "k", "i", "n", "g", ":", ":", "C", "l", "i", "e", "n", "t", ":", ":", "n", "e", "w", "(", ")">>, <<"a", "g", "e", "n", "t">>, <<"x">>}

Fields == {<<"g", "e", "t">>, <<"s", "e", "n", "d">>, <<"j", "s", "o", "n">>}

InitKind ==
    /\ \E object \in Receivers, field \in Fields :
         file = [object |-> object, callee_expr |-> object \o <<".">> \o field]
    /\ sem = <<>>
    /\ out = NoOut

DetectClientKind ==
    /\ out.op = "none"
    /\ DOMAIN file = {"object", "callee_expr"}
    /\ out' = [op  |-> "detect_client_kind",
               val |-> detect_client_kind(file.object, file.callee_expr)]
    /\ UNCHANGED <<sem, file>>

NextKind == DetectClientKind

SpecKind == InitKind /\ [][NextKind]_vars

\* The libraries whose path marker the callee text carries.
PathLibraries(callee_expr) ==
    {l \in {"Ureq", "Hyper", "Surf", "Awc", "Isahc"} :
        CASE l = "Ureq"  -> StartsWith(callee_expr, <<"u", "r", "e", "q", ":", ":">>)
          [] l = "Hyper" -> Contains(callee_expr, <<"h", "y", "p", "e", "r", ":", ":">>)
          [] l = "Surf"  -> Contains(callee_expr, <<"s", "u", "r", "f", ":", ":">>)
          [] l = "Awc"   -> Contains(callee_expr, <<"a", "w", "c", ":", ":">>)
          [] l = "Isahc" -> Contains(callee_expr, <<"i", "s", "a", "h", "c", ":", ":">>)}

KindDone == out.op = "detect_client_kind"

\* C24: a method call whose callee begins with ureq:: is Ureq, and one
\* containing hyper::, surf::, awc:: or isahc:: is that library, whatever the
\* text of the receiver, be the substring "client" in it or not.
C24_PathDecidesLibrary ==
    KindDone =>
        \A l \in PathLibraries(file.callee_expr) :
            PathLibraries(file.callee_expr) = {l} => out.val = Some(Variant(l))

\* hyper::client::Client::new().get carries the path marker of Hyper and was
\* classified Reqwest, because its receiver contains "client".
C24_Witness ==
    /\ KindDone
    /\ file.object = <<"h", "y", "p", "e", "r", ":", ":", "c", "l", "i", "e", "n", "t", ":", ":", "C", "l", "i", "e", "n", "t", ":", ":", "n", "e", "w", "(", ")">>
    /\ file.callee_expr = <<"h", "y", "p", "e", "r", ":", ":", "c", "l", "i", "e", "n", "t", ":", ":", "C", "l", "i", "e", "n", "t", ":", ":", "n", "e", "w", "(", ")", ".", "g", "e", "t">>
    /\ out.val = Some(Variant("Reqwest"))

\* What the code does: the path decides only when the Reqwest test, which
\* comes first, fails; a receiver containing "client" is Reqwest.
C24_ReqwestTestFirst ==
    KindDone =>
        LET reqwest == \/ file.object = <<"r", "e", "q", "w", "e", "s", "t">>
                       \/ Contains(file.callee_expr, <<"r", "e", "q", "w", "e", "s", "t", ":", ":", "C", "l", "i", "e", "n", "t">>)
                       \/ Contains(file.callee_expr, <<"r", "e", "q", "w", "e", "s", "t", ":", ":", "b", "l", "o", "c", "k", "i", "n", "g", ":", ":", "C", "l", "i", "e", "n", "t">>)
                       \/ Contains(file.object, <<"c", "l", "i", "e", "n", "t">>)
        IN /\ reqwest => out.val \in {Some(Variant("Reqwest")), Some(Variant("ReqwestBlocking"))}
           /\ ~reqwest => \A l \in PathLibraries(file.callee_expr) :
                             PathLibraries(file.callee_expr) = {l} => out.val = Some(Variant(l))


(***************************************************************************)
(* Malformed syntax: sources in which the parser's error recovery left a   *)
(* call_expression without its function, or a field_expression without    *)
(* its value or its field, among well-formed requests.                     *)
(***************************************************************************)
MalformedForms == {"no_function", "no_value", "no_field"}

\* The request client.<verb>(u).
Request(verb) == MethodCall(Ident(<<"c", "l", "i", "e", "n", "t">>), verb, <<Ident(<<"u">>)>>)

\* The malformed call; inner is the expression that sits below it.
MalformedCall(form, inner) ==
    CASE form = "no_function" ->
           Node("call_expression", <<Part("arguments", <<>>, Arguments(<<inner>>))>>)
      [] form = "no_value" ->
           CallExpression(Node("field_expression",
                               <<Part("", <<>>, Tok(<<".">>)),
                                 Part("field", <<>>, Leaf("field_identifier", <<"g", "e", "t">>))>>),
                          <<inner>>)
      [] form = "no_field" ->
           CallExpression(Node("field_expression",
                               <<Part("value", <<>>, inner), Part("", <<>>, Tok(<<".">>))>>),
                          <<Ident(<<"u">>)>>)

MalformedSource(wrap, form, inner, before, trailer) ==
    SourceFile((IF before THEN <<Item("let", <<"e">>, Request(<<"p", "o", "s", "t">>))>> ELSE <<>>)
                 \o <<Item(wrap, <<"f">>, MalformedCall(form, inner))>>
                 \o (IF trailer = "none" THEN <<>>
                     ELSE <<Item(trailer, <<"g">>, Request(<<"g", "e", "t">>))>>))

InitMalformed ==
    /\ \E wrap \in Wraps, form \in MalformedForms, before \in BOOLEAN, trailer \in Trailers,
          inner \in {Ident(<<"u">>), Request(<<"g", "e", "t">>), Request(<<"p", "u", "t">>)} :
          file = ParsedFile(MalformedSource(wrap, form, inner, before, trailer))
    /\ sem = EmptySem("Rust")
    /\ out = NoOut

NextMalformed == SummarizeHttpClients

SpecMalformed == InitMalformed /\ [][NextMalformed]_vars

\* A call_expression from which extract_http_call cannot read a callee.
IsMalformed(node) ==
    \/ IsNone(child_by_field_name(node, "function"))
    \/ /\ Unwrap(child_by_field_name(node, "function")).kind = "field_expression"
       /\ \/ IsNone(child_by_field_name(Unwrap(child_by_field_name(node, "function")), "value"))
          \/ IsNone(child_by_field_name(Unwrap(child_by_field_name(node, "function")), "field"))

MalformedCalls == LET Is(c) == IsMalformed(c.node) IN SelectSeq(AllCalls, Is)

RequestCalls == LET Is(c) == ~IsMalformed(c.node) /\ IsRequestRoot(c) IN SelectSeq(AllCalls, Is)

\* The request c was reported, once, as a Reqwest call of its verb.
Reported(c) ==
    /\ Len(SitesOfCall(c)) = 1
    /\ Head(SitesOfCall(c)).client_kind = Variant("Reqwest")
    /\ Head(SitesOfCall(c)).method_name
         = Unwrap(child_by_field_name(Unwrap(child_by_field_name(c.node, "function")),
                                      "field")).text

\* C25: a call_expression without function, or whose field_expression lacks
\* value or field, gives no call site, and the walk goes on below it and
\* after it: every well-formed request of the file, the ones under the
\* malformed node and in later items included, is reported.
C25_MalformedSkipped ==
    HttpDone =>
        /\ LET HasSite(c) == SitesOfCall(c) # <<>>
           IN SelectSeq(MalformedCalls, HasSite) = <<>>
        /\ LET Missed(c) == ~Reported(c)
           IN SelectSeq(RequestCalls, Missed) = <<>>
        /\ Len(out.val) = Len(RequestCalls)

\* A call without function held a request in its arguments and was followed
\* by another request: both were reported, the malformed call was not.
C25_Witness ==
    /\ HttpDone
    /\ Len(MalformedCalls) = 1
    /\ IsNone(child_by_field_name(Head(MalformedCalls).node, "function"))
    /\ Len(RequestCalls) = 2
    /\ Len(out.val) = 2
    /\ Head(MalformedCalls).start_byte < out.val[1].start_byte
    /\ out.val[1].end_byte < Head(MalformedCalls).end_byte
    /\ Head(MalformedCalls).end_byte < out.val[2].start_byte


(***************************************************************************)
(* Walk order: requests on client with calls chained on them and calls     *)
(* nested in their arguments, followed or not by another request.          *)
(***************************************************************************)
InitWalk ==
    /\ \E wrap \in Wraps, root \in {"client.get", "client.execute", "resp.json"},
          ops \in SeqsUpTo(ChainOps, MaxChain), trailer \in Trailers :
          file = ParsedFile(RustSource(wrap, root, ops, "scoped_identifier", trailer, <<"3", "0">>))
    /\ sem = EmptySem("Rust")
    /\ out = NoOut

NextWalk == SummarizeHttpClients

SpecWalk == InitWalk /\ [][NextWalk]_vars

\* Site a comes before site b in depth-first pre-order: it starts earlier,
\* or starts at the same byte and encloses b.
PreOrderBefore(a, b) ==
    \/ a.start_byte < b.start_byte
    \/ a.start_byte = b.start_byte /\ a.end_byte > b.end_byte

\* The call_expression nodes spanning the bytes of a site.
CallsOfSite(site) ==
    LET SameRange(c) == c.start_byte = site.start_byte /\ c.end_byte = site.end_byte
    IN SelectSeq(AllCalls, SameRange)

\* C26: summarize_http_clients returns a list on every tree, and its output holds at
\* most one call site per call_expression node, without duplicates, in
\* depth-first pre-order: the outer call of a chain precedes the calls
\* nested in its receiver.
C26_TerminatesInPreOrder ==
    /\ ~HttpDone => Len(summarize_http_clients(file)) \in 0..Len(AllCalls)
    /\ HttpDone =>
          /\ \A i \in 1..Len(out.val) : Len(CallsOfSite(out.val[i])) = 1
          /\ \A i, j \in 1..Len(out.val) : i < j => PreOrderBefore(out.val[i], out.val[j])
          /\ Len(out.val) <= Len(AllCalls)

\* The outer call of a chain was reported before the request in its receiver.
C26_Witness ==
    /\ HttpDone
    /\ Len(out.val) >= 2
    /\ out.val[1].start_byte = out.val[2].start_byte
    /\ out.val[1].end_byte > out.val[2].end_byte
    /\ out.val[1].method_name = <<"s", "e", "n", "d">>
    /\ out.val[2].method_name = <<"g", "e", "t">>


AsyncDone == out.op = "async_operations"

\* C27: in every normalized AsyncOperation of every language,
\* has_error_handling is true exactly when error_handling is Some, and
\* has_cancellation is true exactly when cancellation_handling is Some.
C27_FlagsMatchDescriptors ==
    AsyncDone =>
        \A i \in 1..Len(out.val) :
            /\ out.val[i].has_error_handling <=> IsSome(out.val[i].error_handling)
            /\ out.val[i].has_cancellation <=> IsSome(out.val[i].cancellation_handling)

\* A Rust spawn whose result is handled and whose handle is kept has both
\* flags set and neither descriptor.
C27_Witness ==
    /\ AsyncDone /\ sem.lang = "Rust" /\ Len(out.val) = 1
    /\ sem.async_info.spawn_calls[1].has_error_handling
    /\ sem.async_info.spawn_calls[1].handle_captured
    /\ out.val[1].has_error_handling /\ out.val[1].error_handling = None
    /\ out.val[1].has_cancellation /\ out.val[1].cancellation_handling = None

\* What the code does: the equivalences hold in Python and TypeScript; in Go
\* and Rust a descriptor never comes without its flag, but a flag may come
\* without a descriptor (goroutine with a context parameter, defer of a
\* resource cleanup, Rust spawn).
C27_DescriptorImpliesFlag ==
    AsyncDone =>
        \A i \in 1..Len(out.val) :
            /\ IsSome(out.val[i].error_handling) => out.val[i].has_error_handling
            /\ IsSome(out.val[i].cancellation_handling) => out.val[i].has_cancellation
            /\ sem.lang \in {"Python", "Typescript"} =>
                  /\ out.val[i].has_error_handling => IsSome(out.val[i].error_handling)
                  /\ out.val[i].has_cancellation => IsSome(out.val[i].cancellation_handling)


\* The operation types of the shared vocabulary, by extractor string.
SharedDbOperationType(operation_type) ==
    CASE operation_type = <<"S", "E", "L", "E", "C", "T">>   -> "Select"
      [] operation_type = <<"I", "N", "S", "E", "R", "T">>   -> "Insert"
      [] operation_type = <<"U", "P", "D", "A", "T", "E">>   -> "Update"
      [] operation_type = <<"D", "E", "L", "E", "T", "E">>   -> "Delete"
      [] operation_type = <<"C", "O", "N", "N", "E", "C", "T">>  -> "Connect"
      [] operation_type = <<"B", "E", "G", "I", "N">>    -> "TransactionBegin"
      [] operation_type = <<"C", "O", "M", "M", "I", "T">>   -> "TransactionCommit"
      [] operation_type = <<"R", "O", "L", "L", "B", "A", "C", "K">> -> "TransactionRollback"
      [] operation_type = <<"R", "A", "W", "_", "S", "Q", "L">>  -> "RawSql"
      [] OTHER                        -> "Unknown"

DbDone == out.op = "db_operations" /\ sem.lang \in {"Go", "Rust", "Typescript"}

\* C28: Go, Rust and TypeScript normalize an operation-type string alike:
\* CONNECT is Connect and BEGIN / COMMIT / ROLLBACK are the three
\* Transaction types in all three, and Unknown is produced only for a
\* string outside the shared vocabulary.
C28_SameTypeInEveryLanguage ==
    DbDone =>
        /\ Len(out.val) = Len(sem.db_operations)
        /\ \A i \in 1..Len(out.val) :
              out.val[i].operation_type
                 = SharedDbOperationType(sem.db_operations[i].operation_type)

\* Rust normalized CONNECT and BEGIN to Unknown.
C28_Witness ==
    /\ DbDone /\ sem.lang = "Rust" /\ Len(out.val) = 2
    /\ sem.db_operations[1].operation_type = <<"C", "O", "N", "N", "E", "C", "T">>
    /\ sem.db_operations[2].operation_type = <<"B", "E", "G", "I", "N">>
    /\ out.val[1].operation_type = "Unknown"
    /\ out.val[2].operation_type = "Unknown"

\* What the code does: the three languages agree on SELECT, INSERT, UPDATE,
\* DELETE and RAW_SQL; Go alone knows the whole vocabulary, TypeScript knows
\* CONNECT besides, and every other string is Unknown.
C28_AgreeOnQueriesOnly ==
    DbDone =>
        \A i \in 1..Len(out.val) :
            LET t == sem.db_operations[i].operation_type
                known == CASE sem.lang = "Go" -> TRUE
                           [] sem.lang = "Rust" ->
                                t \in {<<"S", "E", "L", "E", "C", "T">>, <<"I", "N", "S", "E", "R", "T">>, <<"U", "P", "D", "A", "T", "E">>, <<"D", "E", "L", "E", "T", "E">>, <<"R", "A", "W", "_", "S", "Q", "L">>}
                           [] sem.lang = "Typescript" ->
                                t \in {<<"S", "E", "L", "E", "C", "T">>, <<"I", "N", "S", "E", "R", "T">>, <<"U", "P", "D", "A", "T", "E">>, <<"D", "E", "L", "E", "T", "E">>, <<"R", "A", "W", "_", "S", "Q", "L">>,
                                       <<"C", "O", "N", "N", "E", "C", "T">>}
            IN out.val[i].operation_type
                 = IF known THEN SharedDbOperationType(t) ELSE "Unknown"


\* The free functions the extractors found (a Python method is listed among
\* the functions of its file, with is_method set).
IsFreeFunction(r) == sem.lang = "Python" => ~r.is_method

\* C29: a FunctionDef derived from a Go method, a Rust impl-block method or
\* a TypeScript class method has kind Method and the owning type as
\* class_name; a FunctionDef derived from a free function has no class_name.
C29_MethodsAreMethods ==
    FunctionsDone /\ Len(out.val) = Len(sem.functions) + Len(MethodRecords) =>
        /\ \A j \in 1..Len(MethodRecords) :
              /\ out.val[Len(sem.functions) + j].kind = "Method"
              /\ out.val[Len(sem.functions) + j].class_name = Some(Server)
        /\ \A i \in 1..Len(sem.functions) :
              IsFreeFunction(sem.functions[i]) => out.val[i].class_name = None

\* The method of a Rust impl block was normalized as a free function.
C29_Witness ==
    /\ FunctionsDone /\ sem.lang = "Rust"
    /\ Len(sem.functions) = 1 /\ Len(sem.impls) = 1 /\ Len(sem.impls[1].methods) = 1
    /\ Len(out.val) = 2
    /\ out.val[2].name = sem.impls[1].methods[1].name
    /\ out.val[2].kind = "Function"
    /\ out.val[2].class_name = None

\* What the code does: Go and TypeScript methods are Methods of their type,
\* free functions have no class_name, and the methods of a Rust impl block
\* go through convert_rust_function like free functions.
C29_MethodsExceptRust ==
    FunctionsDone /\ Len(out.val) = Len(sem.functions) + Len(MethodRecords) =>
        /\ \A j \in 1..Len(MethodRecords) :
              IF sem.lang = "Rust"
              THEN /\ out.val[Len(sem.functions) + j].kind = "Function"
                   /\ out.val[Len(sem.functions) + j].class_name = None
              ELSE /\ out.val[Len(sem.functions) + j].kind = "Method"
                   /\ out.val[Len(sem.functions) + j].class_name = Some(Server)
        /\ \A i \in 1..Len(sem.functions) :
              IsFreeFunction(sem.functions[i]) => out.val[i].class_name = None


\* The byte range of an extractor record; a Go mutex operation records the
\* range of its Lock call.
RecordStart(r) == IF "lock_start_byte" \in DOMAIN r THEN r.lock_start_byte ELSE r.start_byte
RecordEnd(r) == IF "lock_end_byte" \in DOMAIN r THEN r.lock_end_byte ELSE r.end_byte

\* The categories whose records the converters of common_impl.rs build (a
\* Rust file stores its HttpCalls already built).
BuiltByConverter ==
    /\ out.op \in {"http_calls", "db_operations", "async_operations", "functions"}
    /\ ~(out.op = "http_calls" /\ sem.lang = "Rust")

\* C30: in every HttpCall, DbOperation, AsyncOperation and FunctionDef built
\* by the converters the byte range of the location is the byte range of
\* the record, both copied unchanged from the extractor record, so that
\* start <= end holds whenever it holds there; the location of a normalized
\* import always has the byte range (0, 0).
C30_ByteRangesCarried ==
    /\ BuiltByConverter =>
          /\ Len(out.val) = Len(InputRecords)
          /\ \A i \in 1..Len(out.val) :
                /\ out.val[i].location.start_byte = out.val[i].start_byte
                /\ out.val[i].location.end_byte = out.val[i].end_byte
                /\ out.val[i].start_byte = RecordStart(InputRecords[i])
                /\ out.val[i].end_byte = RecordEnd(InputRecords[i])
                /\ RecordStart(InputRecords[i]) <= RecordEnd(InputRecords[i])
                     => out.val[i].location.start_byte <= out.val[i].location.end_byte
    /\ out.op = "imports" =>
          /\ Len(out.val) = Len(InputRecords)
          /\ \A i \in 1..Len(out.val) :
                out.val[i].location.start_byte = 0 /\ out.val[i].location.end_byte = 0

\* The second DB operation of a TypeScript file kept its byte range (1, 2) in
\* both places.
C30_Witness ==
    /\ out.op = "db_operations" /\ sem.lang = "Typescript" /\ Len(out.val) = 2
    /\ sem.db_operations[2].start_byte = 1 /\ sem.db_operations[2].end_byte = 2
    /\ out.val[2].start_byte = 1 /\ out.val[2].end_byte = 2
    /\ out.val[2].location.start_byte = 1 /\ out.val[2].location.end_byte = 2

\* The second import of a file has the byte range (0, 0).
C30_ImportWitness ==
    /\ out.op = "imports" /\ Len(out.val) = 2
    /\ out.val[2].location.start_byte = 0 /\ out.val[2].location.end_byte = 0
    /\ out.val[2].location.line = 2


====
